---- MODULE Spec2Model ----
(***************************************************************************)
(* Model of src/parser/xmlHandler.js (strong-soap): the XML <-> value tree *)
(* codec.  xmlToJson is modelled as the sax callbacks it installs, one     *)
(* action per callback, consuming a queue of tokens; jsonToXml, mapObject  *)
(* and addAttributes are modelled as recursive operators over an explicit  *)
(* builder state (XML nodes, namespace scopes, descriptor store).          *)
(*                                                                         *)
(* JavaScript values are records [t, s, n, items]:                         *)
(*   t = "undef" | "null" | "str" | "num" | "bool" | "date"                *)
(*     | "obj"  (a reference: n is an address in heap)                     *)
(*     | "map"  (an object held by value: items is a sequence of [k, v])   *)
(*     | "arr"  (an array: items is a sequence of values)                  *)
(* Objects keep their keys in insertion order, as JavaScript does for the  *)
(* non-integer keys used here.  Element and property names are ordinary    *)
(* XML names that are not inherited properties of Object.prototype.        *)
(***************************************************************************)
EXTENDS Integers, Sequences, FiniteSets, TLC

VARIABLES
  doc,        \* the document given to xmlToJson, as tokens
  input,      \* tokens the tokenizer has still to deliver to xmlToJson
  stack,      \* xmlToJson: stack of frames {name, object, descriptor, id}
  heap,       \* objects created by xmlToJson, by address
  refs,       \* xmlToJson: multiref registry, in insertion order
  nsScopes,   \* NamespaceContext scopes of the running call
  pstate,     \* "parsing" | "returned" | "threw"
  result,     \* value returned by xmlToJson
  error,      \* the Error raised by xmlToJson: [kind, message, root]
  descs,      \* descriptor objects, by identity (index)
  rootDesc,   \* descriptor passed to the call (0 = none)
  options,    \* this.options
  sval,       \* value passed to jsonToXml
  xml,        \* builder state after jsonToXml: [nodes, ns, descs, err]
  calls,      \* number of jsonToXml calls made on this handler
  last,       \* the handler that ran last, and what it acted on
  px          \* parseXml: the running call, its tree and its callback

vars == <<doc, input, stack, heap, refs, nsScopes, pstate, result, error,
          descs, rootDesc, options, sval, xml, calls, last, px>>

----------------------------------------------------------------------------
(* JavaScript values *)

Undef == [t |-> "undef", s |-> "", n |-> 0, items |-> <<>>]
Null == [t |-> "null", s |-> "", n |-> 0, items |-> <<>>]
Str(x) == [t |-> "str", s |-> x, n |-> 0, items |-> <<>>]
Num(x) == [t |-> "num", s |-> "", n |-> x, items |-> <<>>]
NaN == [t |-> "num", s |-> "NaN", n |-> 0, items |-> <<>>]
Bool(b) == [t |-> "bool", s |-> "", n |-> IF b THEN 1 ELSE 0, items |-> <<>>]
DateOf(x) == [t |-> "date", s |-> x, n |-> 0, items |-> <<>>]
Obj(a) == [t |-> "obj", s |-> "", n |-> a, items |-> <<>>]
Map(es) == [t |-> "map", s |-> "", n |-> 0, items |-> es]
Arr(vs) == [t |-> "arr", s |-> "", n |-> 0, items |-> vs]

KV(key, val) == [k |-> key, v |-> val]

\* val == null  (null or undefined)
IsNullish(v) == v.t \in {"undef", "null"}

\* if (val)
Truthy(v) ==
  CASE v.t \in {"undef", "null"} -> FALSE
    [] v.t = "str" -> v.s # ""
    [] v.t = "num" -> v.s # "NaN" /\ v.n # 0
    [] v.t = "bool" -> v.n = 1
    [] OTHER -> TRUE

\* typeof val === 'object' (null included, as in JavaScript)
TypeofObject(v) == v.t \in {"null", "obj", "map", "arr", "date"}

\* Ordered maps: sequences of [k, v] with distinct keys.
Keys(es) == [i \in 1..Len(es) |-> es[i].k]
HasKey(es, key) == \E i \in 1..Len(es) : es[i].k = key
GetKey(es, key) ==
  IF HasKey(es, key)
  THEN es[CHOOSE i \in 1..Len(es) : es[i].k = key].v
  ELSE Undef
SetKey(es, key, val) ==
  IF HasKey(es, key)
  THEN [i \in 1..Len(es) |-> IF es[i].k = key THEN KV(key, val) ELSE es[i]]
  ELSE Append(es, KV(key, val))

\* The own properties of an object value, wherever it is held.
Props(h, v) ==
  CASE v.t = "obj" -> h[v.n]
    [] v.t = "map" -> v.items
    [] OTHER -> <<>>

\* v[key] for a value v that is not null or undefined.
Field(h, v, key) == GetKey(Props(h, v), key)

\* The value tree below v, with every reference replaced by its object.
RECURSIVE Resolve(_, _)
Resolve(h, v) ==
  CASE v.t = "obj" ->
         Map([i \in 1..Len(h[v.n]) |->
                KV(h[v.n][i].k, Resolve(h, h[v.n][i].v))])
    [] v.t = "map" ->
         Map([i \in 1..Len(v.items) |->
                KV(v.items[i].k, Resolve(h, v.items[i].v))])
    [] v.t = "arr" ->
         Arr([i \in 1..Len(v.items) |-> Resolve(h, v.items[i])])
    [] OTHER -> v

----------------------------------------------------------------------------
(* Bounds of the model *)

MaxNum == 2         \* numbers that occur in texts and values are 0..MaxNum
MaxCalls == 2       \* jsonToXml calls made on one handler

----------------------------------------------------------------------------
(* Handler options (constructor, lines 24-31) *)

valueKey == "$value"
xmlKey == "$xml"
attributesKey == "$attributes"
xsiTypeKey == "$xsiType"

\* helper.namespaces.xsi
XSI == "http://www.w3.org/2001/XMLSchema-instance"

DefaultOptions == [ignoreUnknownProperties |-> FALSE, enforceRestrictions |-> FALSE]

----------------------------------------------------------------------------
(* QName: text parse / format.  A qualified name in text is "name" or      *)
(* "prefix:name"; parse is the inverse of that formatting over the names   *)
(* of the model.                                                           *)

Prefixes == {"", "xmlns", "xsi", "soap", "p", "q", "ns1"}
LocalNames ==
  {"x", "y", "v", "a", "b", "k", "id", "href", "nil", "type", "xmlns", "xsi",
   "soap", "p", "q", "ns1", "r", "c", "u", "Sub", "Other",
   "Envelope", "Body", "Fault", "faultcode", "faultstring", "faultactor",
   "detail", "Code", "Header"}

QFormat(prefix, name) == IF prefix = "" THEN name ELSE prefix \o ":" \o name

\* The qualified texts of the model, each with the name it parses to.
QNameTable ==
  LET qs == [prefix : Prefixes \ {""}, name : LocalNames]
  IN [text \in {QFormat(q.prefix, q.name) : q \in qs} |->
        CHOOSE q \in qs : QFormat(q.prefix, q.name) = text]

QNameParse(text) ==
  IF text \in DOMAIN QNameTable THEN QNameTable[text]
  ELSE [prefix |-> "", name |-> text]

\* /^xmlns:|^xmlns$/.test(a)
IsXmlnsAttr(a) == a = "xmlns" \/ QNameParse(a).prefix = "xmlns"

----------------------------------------------------------------------------
(* NamespaceContext: a stack of scopes, each a sequence of bindings        *)
(* [prefix, uri, declared].                                                *)

NoMapping == [prefix |-> "", uri |-> "", declared |-> FALSE]

NewNamespaceContext == << <<>> >>

pushContext(ns) == Append(ns, <<>>)

popContext(ns) == SubSeq(ns, 1, Len(ns) - 1)

\* Every visible binding, outermost scope first.
RECURSIVE Visible(_)
Visible(ns) ==
  IF Len(ns) = 0 THEN <<>>
  ELSE Visible(SubSeq(ns, 1, Len(ns) - 1)) \o ns[Len(ns)]

\* The innermost visible binding at one of the positions idx, or NoMapping.
InnermostAt(all, idx) ==
  IF idx = {} THEN NoMapping
  ELSE all[CHOOSE i \in idx : \A j \in idx : j <= i]

\* nsContext.getNamespaceURI(prefix): "" when the prefix is not bound.
getNamespaceURI(ns, prefix) ==
  LET all == Visible(ns)
  IN InnermostAt(all, {i \in 1..Len(all) : all[i].prefix = prefix}).uri

\* nsContext.getPrefixMapping(nsURI): NoMapping when the URI is not bound.
getPrefixMapping(ns, nsURI) ==
  LET all == Visible(ns)
  IN InnermostAt(all, {i \in 1..Len(all) : all[i].uri = nsURI})

\* nsContext.addNamespace(prefix, nsURI): bind in the current scope, not yet
\* declared in the output.
addNamespace(ns, prefix, nsURI) ==
  IF getNamespaceURI(ns, prefix) = nsURI THEN ns
  ELSE [ns EXCEPT ![Len(ns)] =
          Append(@, [prefix |-> prefix, uri |-> nsURI, declared |-> FALSE])]

\* A prefix no visible binding uses.
generatePrefix(ns) ==
  LET Used(n) == getNamespaceURI(ns, "ns" \o ToString(n)) # ""
      n == CHOOSE k \in 1..(Len(ns) * 4 + 1) :
             ~Used(k) /\ \A l \in 1..(k - 1) : Used(l)
  IN "ns" \o ToString(n)

\* nsContext.declareNamespace(prefix, nsURI): the existing binding when the
\* URI is already visible, else a binding created in the current scope and
\* marked declared.  Result: [ns, mapping].
nsDeclareNamespace(ns, prefix, nsURI) ==
  LET old == getPrefixMapping(ns, nsURI)
      pf == IF prefix = "" THEN generatePrefix(ns) ELSE prefix
      new == [prefix |-> pf, uri |-> nsURI, declared |-> TRUE]
  IN IF old # NoMapping
     THEN [ns |-> ns, mapping |-> old]
     ELSE [ns |-> [ns EXCEPT ![Len(ns)] = Append(@, new)], mapping |-> new]

----------------------------------------------------------------------------
(* Descriptors.  A descriptor object is a record of the store descs, named *)
(* by its index; 0 is "no descriptor".                                     *)
(*   kind: "element" | "attribute" | "type"                                *)
(*   elements, attributes: indices of the child descriptors, in order      *)
(*   inheritance: refOriginal.typeDescriptor.inheritance, as a sequence of *)
(*   [type, ext], ext the index of the extension descriptor                *)

Desc(kind, name) ==
  [kind |-> kind, name |-> name, prefix |-> "", nsURI |-> "",
   form |-> "unqualified", isMany |-> FALSE, isNillable |-> FALSE,
   isSimple |-> FALSE, typeName |-> "", jsType |-> "",
   elements |-> <<>>, attributes |-> <<>>, inheritance |-> <<>>]

\* descriptor.findElement(name)
findElement(ds, d, name) ==
  IF d = 0 \/ ~\E i \in 1..Len(ds[d].elements) : ds[ds[d].elements[i]].name = name
  THEN 0
  ELSE LET i == CHOOSE i \in 1..Len(ds[d].elements) :
                  /\ ds[ds[d].elements[i]].name = name
                  /\ \A j \in 1..(i - 1) : ds[ds[d].elements[j]].name # name
       IN ds[d].elements[i]

\* descriptor.findAttribute(name)
findAttribute(ds, d, name) ==
  IF d = 0 \/ ~\E i \in 1..Len(ds[d].attributes) :
                 ds[ds[d].attributes[i]].name = name
  THEN 0
  ELSE LET i == CHOOSE i \in 1..Len(ds[d].attributes) :
                  /\ ds[ds[d].attributes[i]].name = name
                  /\ \A j \in 1..(i - 1) : ds[ds[d].attributes[j]].name # name
       IN ds[d].attributes[i]

----------------------------------------------------------------------------
(* Text and typed values *)

\* String.prototype.trim over the text chunks of the model.
Trim(text) ==
  CASE text = " " -> ""
    [] text = " 1 " -> "1"
    [] OTHER -> text

\* String(v), as the + operator and the XML builder render a scalar.
JsToString(v) ==
  CASE v.t = "str" -> v.s
    [] v.t = "num" -> IF v.s = "NaN" THEN "NaN" ELSE ToString(v.n)
    [] v.t = "bool" -> IF v.n = 1 THEN "true" ELSE "false"
    [] v.t = "undef" -> "undefined"
    [] v.t = "null" -> "null"
    [] v.t = "date" -> v.s
    [] v.t = "arr" -> ""
    [] OTHER -> "[object Object]"

\* Number(text)
JsNumber(text) ==
  IF \E k \in 0..MaxNum : ToString(k) = text
  THEN Num(CHOOSE k \in 0..MaxNum : ToString(k) = text)
  ELSE NaN

\* a + b
JsPlus(a, b) ==
  IF a.t \in {"num", "bool", "null"} /\ b.t \in {"num", "bool", "null"}
  THEN IF a.s = "NaN" \/ b.s = "NaN" THEN NaN ELSE Num(a.n + b.n)
  ELSE IF a.t = "undef" /\ b.t \in {"num", "bool", "null", "undef"} THEN NaN
  ELSE Str(JsToString(a) \o JsToString(b))

\* parseValue(text, descriptor), text a string
parseValue(ds, text, d) ==
  LET jsType == IF d = 0 THEN "" ELSE ds[d].jsType
  IN CASE jsType = "Date" ->
            IF Len(text) = 10 THEN Str(text) ELSE DateOf(text)
       [] jsType = "Boolean" -> Bool(text = "true" \/ text = "1")
       [] jsType = "Number" -> JsNumber(text)
       [] jsType = "String" -> Str(text)
       [] OTHER -> Str(text)

\* _processText without the return of line 535: text makes the object of
\* a nulled element
processTextIntoNil(h, topObject, val) ==
  IF IsNullish(topObject) THEN [object |-> val, heap |-> h]
  ELSE IF topObject.t = "obj"
  THEN LET value == GetKey(h[topObject.n], valueKey)
       IN [object |-> topObject,
           heap |-> [h EXCEPT ![topObject.n] =
                       SetKey(@, valueKey,
                              IF value.t # "undef" THEN JsPlus(value, val)
                              ELSE val)]]
  ELSE [object |-> JsPlus(topObject, val), heap |-> h]

\* _processText(top, val): the frame's object and the heap afterwards.
processText(h, topObject, val) ==
  CASE topObject.t = "null" -> [object |-> topObject, heap |-> h]
    [] topObject.t = "undef" -> [object |-> val, heap |-> h]
    [] topObject.t = "obj" ->
         LET value == GetKey(h[topObject.n], valueKey)
         IN [object |-> topObject,
             heap |-> [h EXCEPT ![topObject.n] =
                         SetKey(@, valueKey,
                                IF value.t # "undef" THEN JsPlus(value, val)
                                ELSE val)]]
    [] OTHER -> [object |-> JsPlus(topObject, val), heap |-> h]

----------------------------------------------------------------------------
(* JSON.stringify and selectn *)

RECURSIVE JoinJson(_)
JoinJson(parts) ==
  IF Len(parts) = 0 THEN ""
  ELSE IF Len(parts) = 1 THEN parts[1]
  ELSE parts[1] \o "," \o JoinJson(Tail(parts))

\* JSON.stringify(v) for a value that is not undefined.
RECURSIVE JsonStringify(_, _)
JsonStringify(h, v) ==
  CASE v.t = "str" -> "\"" \o v.s \o "\""
    [] v.t = "date" -> "\"" \o v.s \o "\""
    [] v.t = "num" -> IF v.s = "NaN" THEN "null" ELSE ToString(v.n)
    [] v.t = "bool" -> IF v.n = 1 THEN "true" ELSE "false"
    [] v.t \in {"null", "undef"} -> "null"
    [] v.t = "arr" ->
         "[" \o JoinJson([i \in 1..Len(v.items) |-> JsonStringify(h, v.items[i])])
             \o "]"
    [] OTHER ->
         LET es == Props(h, v)
             shown == SelectSeq(es, LAMBDA e : e.v.t # "undef")
         IN "{" \o JoinJson([i \in 1..Len(shown) |->
                               "\"" \o shown[i].k \o "\":"
                                    \o JsonStringify(h, shown[i].v)])
                \o "}"

\* selectn('k1', obj) and selectn('k1.k2', obj)
selectn1(h, obj, k1) == Field(h, obj, k1)
selectn2(h, obj, k1, k2) == Field(h, Field(h, obj, k1), k2)

\* a || b
JsOr(a, b) == IF Truthy(a) THEN a ELSE b

----------------------------------------------------------------------------
(* Fault messages (lines 753-830).  A message is a string, or NoMessage    *)
(* for null.                                                               *)

NoMessage == [isNull |-> TRUE, text |-> ""]
Message(text) == [isNull |-> FALSE, text |-> text]

Soap11DetailFirst(h, faultBody) ==
  LET faultcode == JsOr(selectn2(h, faultBody, "faultcode", valueKey),
                        selectn1(h, faultBody, "faultcode"))
      faultstring == JsOr(selectn2(h, faultBody, "faultstring", valueKey),
                          selectn1(h, faultBody, "faultstring"))
      detail == JsOr(selectn2(h, faultBody, "detail", valueKey),
                     selectn1(h, faultBody, "detail"))
      m0 == IF faultcode.t = "str" THEN "faultcode: " \o faultcode.s ELSE " "
      m1 == IF ~IsNullish(detail)
            THEN m0 \o " detail: " \o (IF detail.t = "str" THEN detail.s
                                        ELSE JsonStringify(h, detail))
            ELSE m0
      m2 == IF Truthy(faultstring) /\ faultstring.t = "str"
            THEN m1 \o " faultstring: " \o faultstring.s ELSE m1
  IN IF Truthy(faultcode) THEN Message(m2) ELSE NoMessage

getSoap11FaultErrorMessage(h, faultBody) ==
  LET faultcode == JsOr(selectn2(h, faultBody, "faultcode", valueKey),
                        selectn1(h, faultBody, "faultcode"))
      faultstring == JsOr(selectn2(h, faultBody, "faultstring", valueKey),
                          selectn1(h, faultBody, "faultstring"))
      faultactor == JsOr(selectn2(h, faultBody, "faultactor", valueKey),
                         selectn1(h, faultBody, "faultactor"))
      detail == JsOr(selectn2(h, faultBody, "detail", valueKey),
                     selectn1(h, faultBody, "detail"))
      m0 == IF faultcode.t = "str" THEN "faultcode: " \o faultcode.s ELSE " "
      m1 == IF Truthy(faultstring) /\ faultstring.t = "str"
            THEN m0 \o " faultstring: " \o faultstring.s ELSE m0
      m2 == IF Truthy(faultactor) /\ faultactor.t = "str"
            THEN m1 \o " faultactor: " \o faultactor.s ELSE m1
      m3 == IF ~IsNullish(detail)
            THEN m2 \o " detail: " \o (IF detail.t = "str" THEN detail.s
                                        ELSE JsonStringify(h, detail))
            ELSE m2
  IN IF Truthy(faultcode) THEN Message(m3) ELSE NoMessage

\* One " Label: <dump>" part of a SOAP 1.2 message, when the value is truthy.
Soap12Part(h, label, v) ==
  IF Truthy(v) THEN " " \o label \o ": " \o JsonStringify(h, v) ELSE ""

getSoap12FaultErrorMessage(h, faultBody) ==
  LET code == JsOr(selectn1(h, faultBody, "Code"), selectn1(h, faultBody, "Code"))
      value == JsOr(selectn2(h, faultBody, "Value", valueKey),
                    selectn1(h, faultBody, "Value"))
      subCode == JsOr(selectn2(h, faultBody, "Subcode", valueKey),
                      selectn1(h, faultBody, "Subcode"))
      reason == JsOr(selectn2(h, faultBody, "reason", valueKey),
                     selectn1(h, faultBody, "Reason"))
      node == JsOr(selectn2(h, faultBody, "Node", valueKey),
                   selectn1(h, faultBody, "Node"))
      role == JsOr(selectn2(h, faultBody, "Role", valueKey),
                   selectn1(h, faultBody, "Role"))
      detail == JsOr(selectn2(h, faultBody, "Detail", valueKey),
                     selectn1(h, faultBody, "Detail"))
      m == " " \o "Code: " \o JsonStringify(h, code)
               \o Soap12Part(h, "Value", value)
               \o Soap12Part(h, "Subcode", subCode)
               \o Soap12Part(h, "Reason", reason)
               \o Soap12Part(h, "Node", node)
               \o Soap12Part(h, "Role", role)
               \o (IF ~IsNullish(detail)
                   THEN " Detail: " \o (IF detail.t = "str" THEN detail.s
                                         ELSE JsonStringify(h, detail))
                   ELSE "")
  IN IF Truthy(code) THEN Message(m) ELSE NoMessage

----------------------------------------------------------------------------
(* xmlToJson (lines 553-750).  Tokens are [kind, name, attrs, text]; attrs *)
(* is the tag's attribute map in document order, a sequence of             *)
(* [name, value].  A frame carries, besides the fields of the code, the    *)
(* open tag it was pushed for (tag) and the children closed into it so far *)
(* (kids: [name, value, many]); the handlers never read these two.         *)

OpenTok(name, attrs) == [kind |-> "open", name |-> name, attrs |-> attrs, text |-> ""]
CloseTok(name) == [kind |-> "close", name |-> name, attrs |-> <<>>, text |-> ""]
TextTok(text) == [kind |-> "text", name |-> "", attrs |-> <<>>, text |-> text]
CDataTok(text) == [kind |-> "cdata", name |-> "", attrs |-> <<>>, text |-> text]
Attr(name, value) == [name |-> name, value |-> value]

NoTag == OpenTok("", <<>>)

Frame(name, object, descriptor, id, tag) ==
  [name |-> name, object |-> object, descriptor |-> descriptor, id |-> id,
   tag |-> tag, kids |-> <<>>]

Top(stk) == stk[Len(stk)]

\* attrs[name], or Undef
AttrValue(attrs, name) ==
  IF \E i \in 1..Len(attrs) : attrs[i].name = name
  THEN Str(attrs[CHOOSE i \in 1..Len(attrs) : attrs[i].name = name].value)
  ELSE Undef

\* Lines 573-578: register the namespace declarations of the tag.
RECURSIVE RegisterNamespaces(_, _, _)
RegisterNamespaces(ns, attrs, i) ==
  IF i > Len(attrs) THEN ns
  ELSE IF IsXmlnsAttr(attrs[i].name)
  THEN RegisterNamespaces(
         addNamespace(ns,
                      IF attrs[i].name = "xmlns" THEN ""
                      ELSE QNameParse(attrs[i].name).name,
                      attrs[i].value),
         attrs, i + 1)
  ELSE RegisterNamespaces(ns, attrs, i + 1)

\* Lines 582-619 without the test for xsi:nil: every attribute is recorded
\* under its local name.
AttributeStepRecordsNil(ns, a, acc) ==
  [obj |-> acc.obj,
   elementAttributes |->
     Map(SetKey(IF acc.elementAttributes.t = "null" THEN <<>>
                ELSE acc.elementAttributes.items,
                QNameParse(a.name).name, Str(a.value)))]

\* Lines 582-619, one attribute that declares no namespace: acc is
\* [obj, elementAttributes], the latter Null until an attribute is recorded.
\* The value coerced on line 609 is not used: line 618 stores attrs[a].
AttributeStep(ns, a, acc) ==
  LET qname == QNameParse(a.name)
      inXsi == getNamespaceURI(ns, qname.prefix) = XSI
      isXsiType == inXsi /\ qname.name = "type"
      xsiType == QNameParse(a.value)
      xsiXmlns == IF isXsiType /\ xsiType.prefix # ""
                     /\ getNamespaceURI(ns, xsiType.prefix) # ""
                  THEN Str(getNamespaceURI(ns, xsiType.prefix)) ELSE Null
      \* attrs[a] after line 600
      attrText == IF isXsiType THEN xsiType.name ELSE a.value
      old == IF acc.elementAttributes.t = "null" THEN <<>>
             ELSE acc.elementAttributes.items
  IN IF inXsi /\ qname.name = "nil"
     THEN [obj |-> IF a.value = "true" THEN Null ELSE acc.obj,
           elementAttributes |-> acc.elementAttributes]
     ELSE [obj |-> acc.obj,
           elementAttributes |->
             Map(IF isXsiType
                 THEN SetKey(old, xsiTypeKey,
                             Map(<<KV("type", Str(attrText)),
                                   KV("xmlns", xsiXmlns)>>))
                 ELSE SetKey(old, qname.name, Str(attrText)))]

RECURSIVE AttributeLoop(_, _, _, _)
AttributeLoop(ns, attrs, i, acc) ==
  IF i > Len(attrs) THEN acc
  ELSE IF IsXmlnsAttr(attrs[i].name) THEN AttributeLoop(ns, attrs, i + 1, acc)
  ELSE AttributeLoop(ns, attrs, i + 1, AttributeStep(ns, attrs[i], acc))

\* The registry entries: [id, hrefs, object].
HasRef(rs, id) == \E i \in 1..Len(rs) : rs[i].id = id
RefIndex(rs, id) == CHOOSE i \in 1..Len(rs) : rs[i].id = id
EnsureRef(rs, id) ==
  IF HasRef(rs, id) THEN rs
  ELSE Append(rs, [id |-> id, hrefs |-> <<>>, object |-> Null])

\* href.substr(1), over the references of the model
HrefTable ==
  [text \in {"#" \o nm : nm \in {ToString(k) : k \in 0..MaxNum}} |->
     CHOOSE nm \in {ToString(k) : k \in 0..MaxNum} : "#" \o nm = text]

Substr1(text) == IF text \in DOMAIN HrefTable THEN HrefTable[text] ELSE text

\* p.onopentag
OnOpenTag ==
  /\ pstate = "parsing"
  /\ input # <<>>
  /\ Head(input).kind = "open"
  /\ LET node == Head(input)
         ns1 == RegisterNamespaces(pushContext(nsScopes), node.attrs, 1)
         top == Top(stack)
         acc == AttributeLoop(ns1, node.attrs, 1,
                              [obj |-> Undef, elementAttributes |-> Null])
         hasAttrs == acc.elementAttributes.t # "null"
         \* lines 622-625: obj = {}; obj[attributesKey] = elementAttributes
         heap1 == IF hasAttrs
                  THEN Append(heap, <<KV(attributesKey, acc.elementAttributes)>>)
                  ELSE heap
         obj == IF hasAttrs THEN Obj(Len(heap1)) ELSE acc.obj
         elementQName == QNameParse(node.name)
         href == AttrValue(node.attrs, "href")
         id == AttrValue(node.attrs, "id")
         refs1 == IF ~IsNullish(href)
                  THEN LET rid == Substr1(href.s)
                           rs == EnsureRef(refs, rid)
                       IN [rs EXCEPT ![RefIndex(rs, rid)].hrefs =
                             Append(@, [parent |-> top.object,
                                        key |-> elementQName.name,
                                        object |-> obj])]
                  ELSE refs
         refs2 == IF ~IsNullish(id) THEN EnsureRef(refs1, id.s) ELSE refs1
     IN /\ nsScopes' = ns1
        /\ heap' = heap1
        /\ refs' = refs2
        /\ stack' = Append(stack,
                           Frame(elementQName.name, obj,
                                 findElement(descs, top.descriptor,
                                             elementQName.name),
                                 id, node))
        /\ last' = [op |-> "open", name |-> elementQName.name]
  /\ input' = Tail(input)
  /\ UNCHANGED <<doc, pstate, result, error, descs, rootDesc, options, sval,
                 xml, calls, px>>

\* The Error object a call ends with, and the absence of one.
NoError == [kind |-> "", message |-> "", root |-> Undef]
ErrorOf(kind, message, root) == [kind |-> kind, message |-> message, root |-> root]

\* Lines 658-677 with the test of line 661 made on the closed element's
\* object: a nulled element is not merged into its parent.
CloseIntoUnlessNil(h, topObject, elementName, object, many) ==
  LET h1 == IF topObject.t = "undef" THEN Append(h, <<>>) ELSE h
      top1 == IF topObject.t = "undef" THEN Obj(Len(h1)) ELSE topObject
  IN CASE object.t = "null" -> [object |-> top1, heap |-> h1, threw |-> FALSE]
       [] top1.t = "obj" ->
            LET es == h1[top1.n]
                val == GetKey(es, elementName)
                new == IF HasKey(es, elementName)
                       THEN IF val.t = "arr" THEN Arr(Append(val.items, object))
                            ELSE Arr(<<val, object>>)
                       ELSE IF many THEN Arr(<<object>>)
                       ELSE object
            IN [object |-> top1,
                heap |-> [h1 EXCEPT ![top1.n] = SetKey(es, elementName, new)],
                threw |-> FALSE]
       [] top1.t \in {"date", "null"} ->
            [object |-> top1, heap |-> h1, threw |-> FALSE]
       [] OTHER -> [object |-> top1, heap |-> h1, threw |-> TRUE]

\* Lines 658-677: what closing element elementName with value object does to
\* the parent value topObject; many is current.descriptor &&
\* current.descriptor.isMany.  Result: [object, heap, threw]; threw is the
\* TypeError strict-mode code raises when a property is assigned on a
\* primitive (a parent that already holds text).
CloseInto(h, topObject, elementName, object, many) ==
  LET h1 == IF topObject.t = "undef" THEN Append(h, <<>>) ELSE h
      top1 == IF topObject.t = "undef" THEN Obj(Len(h1)) ELSE topObject
  IN CASE top1.t = "null" -> [object |-> top1, heap |-> h1, threw |-> FALSE]
       [] top1.t = "obj" ->
            LET es == h1[top1.n]
                val == GetKey(es, elementName)
                new == IF HasKey(es, elementName)
                       THEN IF val.t = "arr" THEN Arr(Append(val.items, object))
                            ELSE Arr(<<val, object>>)
                       ELSE IF many THEN Arr(<<object>>)
                       ELSE object
            IN [object |-> top1,
                heap |-> [h1 EXCEPT ![top1.n] = SetKey(es, elementName, new)],
                threw |-> FALSE]
       [] top1.t = "date" -> [object |-> top1, heap |-> h1, threw |-> FALSE]
       [] OTHER -> [object |-> top1, heap |-> h1, threw |-> TRUE]

\* p.onclosetag without the popContext of line 655
OnCloseTagKeepsScope ==
  /\ pstate = "parsing"
  /\ input # <<>>
  /\ Head(input).kind = "close"
  /\ LET elementName == QNameParse(Head(input).name).name
         current == Top(stack)
         rest == SubSeq(stack, 1, Len(stack) - 1)
         top == Top(rest)
         many == current.descriptor # 0 /\ descs[current.descriptor].isMany
         r == CloseInto(heap, top.object, elementName, current.object, many)
         kid == [name |-> elementName, value |-> current.object, many |-> many]
     IN /\ nsScopes' = nsScopes
        /\ heap' = r.heap
        /\ stack' = [rest EXCEPT ![Len(rest)].object = r.object,
                                 ![Len(rest)].kids = Append(@, kid)]
        /\ IF r.threw
           THEN /\ pstate' = "threw"
                /\ error' = ErrorOf("TypeError", "", Undef)
                /\ refs' = refs
           ELSE /\ pstate' = pstate
                /\ error' = error
                /\ refs' = IF ~IsNullish(current.id)
                           THEN [refs EXCEPT ![RefIndex(refs, current.id.s)].object =
                                   current.object]
                           ELSE refs
        /\ last' = [op |-> "close", name |-> elementName]
  /\ input' = Tail(input)
  /\ UNCHANGED <<doc, result, descs, rootDesc, options, sval, xml, calls, px>>

\* p.onclosetag
OnCloseTag ==
  /\ pstate = "parsing"
  /\ input # <<>>
  /\ Head(input).kind = "close"
  /\ LET elementName == QNameParse(Head(input).name).name
         current == Top(stack)
         rest == SubSeq(stack, 1, Len(stack) - 1)
         top == Top(rest)
         many == current.descriptor # 0 /\ descs[current.descriptor].isMany
         r == CloseInto(heap, top.object, elementName, current.object, many)
         kid == [name |-> elementName, value |-> current.object, many |-> many]
     IN /\ nsScopes' = popContext(nsScopes)
        /\ heap' = r.heap
        /\ stack' = [rest EXCEPT ![Len(rest)].object = r.object,
                                 ![Len(rest)].kids = Append(@, kid)]
        /\ IF r.threw
           THEN /\ pstate' = "threw"
                /\ error' = ErrorOf("TypeError", "", Undef)
                /\ refs' = refs
           ELSE /\ pstate' = pstate
                /\ error' = error
                /\ refs' = IF ~IsNullish(current.id)
                           THEN [refs EXCEPT ![RefIndex(refs, current.id.s)].object =
                                   current.object]
                           ELSE refs
        /\ last' = [op |-> "close", name |-> elementName]
  /\ input' = Tail(input)
  /\ UNCHANGED <<doc, result, descs, rootDesc, options, sval, xml, calls, px>>

\* p.ontext
OnText ==
  /\ pstate = "parsing"
  /\ input # <<>>
  /\ Head(input).kind = "text"
  /\ LET text == Trim(Head(input).text)
         top == Top(stack)
         r == processText(heap, top.object, parseValue(descs, text, top.descriptor))
     IN IF Len(text) = 0
        THEN UNCHANGED <<stack, heap>>
        ELSE /\ stack' = [stack EXCEPT ![Len(stack)].object = r.object]
             /\ heap' = r.heap
  /\ input' = Tail(input)
  /\ last' = [op |-> "text", name |-> Top(stack).name]
  /\ UNCHANGED <<doc, refs, nsScopes, pstate, result, error, descs, rootDesc,
                 options, sval, xml, calls, px>>

\* p.oncdata, for a section that holds no XML declaration
OnCData ==
  /\ pstate = "parsing"
  /\ input # <<>>
  /\ Head(input).kind = "cdata"
  /\ LET text == Trim(Head(input).text)
         top == Top(stack)
         r == processText(heap, top.object, Str(text))
     IN IF Len(text) = 0
        THEN UNCHANGED <<stack, heap>>
        ELSE /\ stack' = [stack EXCEPT ![Len(stack)].object = r.object]
             /\ heap' = r.heap
  /\ input' = Tail(input)
  /\ last' = [op |-> "cdata", name |-> Top(stack).name]
  /\ UNCHANGED <<doc, refs, nsScopes, pstate, result, error, descs, rootDesc,
                 options, sval, xml, calls, px>>

\* Lines 712-718: copy the own properties of obj onto href.object.
RECURSIVE CopyProps(_, _, _)
CopyProps(es, from, j) ==
  IF j > Len(from) THEN es
  ELSE CopyProps(SetKey(es, from[j].k, from[j].v), from, j + 1)

\* merge that passes over the attribute map of the referenced object
mergeSkipsAttributes(h, href, obj) ==
  IF obj.t = "obj" /\ href.object.t = "obj"
  THEN [h EXCEPT ![href.object.n] =
          CopyProps(@, SelectSeq(h[obj.n], LAMBDA e : e.k # attributesKey), 1)]
  ELSE h

\* merge that leaves the properties the target already has
mergeKeepsOwn(h, href, obj) ==
  IF obj.t = "obj" /\ href.object.t = "obj"
  THEN [h EXCEPT ![href.object.n] =
          @ \o SelectSeq(h[obj.n], LAMBDA e : ~HasKey(h[href.object.n], e.k))]
  ELSE h

merge(h, href, obj) ==
  IF obj.t = "obj" /\ href.object.t = "obj"
  THEN [h EXCEPT ![href.object.n] = CopyProps(@, h[obj.n], 1)]
  ELSE h

\* for (const n in refs): integer-like ids in ascending order, then the
\* others in insertion order.
IsIndexKey(id) == \E k \in 0..MaxNum : ToString(k) = id
IndexOfKey(id) == CHOOSE k \in 0..MaxNum : ToString(k) = id

RECURSIVE SortedIndexRefs(_, _)
SortedIndexRefs(rs, k) ==
  IF k > MaxNum THEN <<>>
  ELSE SelectSeq(rs, LAMBDA r : IsIndexKey(r.id) /\ IndexOfKey(r.id) = k)
         \o SortedIndexRefs(rs, k + 1)

RefOrder(rs) ==
  SortedIndexRefs(rs, 0) \o SelectSeq(rs, LAMBDA r : ~IsIndexKey(r.id))

\* Lines 721-726
RECURSIVE MergeHrefs(_, _, _)
MergeHrefs(h, ref, i) ==
  IF i > Len(ref.hrefs) THEN h
  ELSE MergeHrefs(merge(h, ref.hrefs[i], ref.object), ref, i + 1)

RECURSIVE MergeRefs(_, _, _)
MergeRefs(h, rs, n) ==
  IF n > Len(rs) THEN h
  ELSE MergeRefs(MergeHrefs(h, rs[n], 1), rs, n + 1)

\* Lines 733-741 with the SOAP 1.2 shape tried before the SOAP 1.1 shape
FaultMessage12First(h, fault) ==
  LET m12 == getSoap12FaultErrorMessage(h, fault)
      m11 == IF m12.isNull THEN getSoap11FaultErrorMessage(h, fault) ELSE m12
  IN IF m11.isNull THEN "Error occurred processing Fault response." ELSE m11.text

\* Lines 733-741
FaultMessage(h, fault) ==
  LET m11 == getSoap11FaultErrorMessage(h, fault)
      m12 == IF m11.isNull THEN getSoap12FaultErrorMessage(h, fault) ELSE m11
  IN IF m12.isNull THEN "Error occurred processing Fault response." ELSE m12.text

root == Obj(1)

\* Lines 728-749 without the look at Envelope, Body and Fault
FinishReturnsRoot(h) == [threw |-> FALSE, message |-> "", value |-> root]

\* Lines 728-749 on the merged heap h: [threw, message, value].
Finish(h) ==
  LET envelope == Field(h, root, "Envelope")
      body == IF Truthy(envelope) THEN Field(h, envelope, "Body") ELSE Undef
      fault == IF IsNullish(body) THEN Undef ELSE Field(h, body, "Fault")
  IN IF Truthy(envelope) /\ ~IsNullish(body) /\ ~IsNullish(fault)
     THEN [threw |-> TRUE, message |-> FaultMessage(h, fault), value |-> root]
     ELSE [threw |-> FALSE, message |-> "",
           value |-> IF Truthy(envelope) THEN envelope ELSE root]

\* Lines 709-749, after the last token: merge the multirefs, then return
\* or throw.
End ==
  /\ pstate = "parsing"
  /\ input = <<>>
  /\ LET h == MergeRefs(heap, RefOrder(refs), 1)
         r == Finish(h)
     IN /\ heap' = h
        /\ IF r.threw
           THEN /\ pstate' = "threw"
                /\ error' = ErrorOf("Error", r.message, r.value)
                /\ result' = result
           ELSE /\ pstate' = "returned"
                /\ error' = error
                /\ result' = r.value
  /\ last' = [op |-> "end", name |-> ""]
  /\ UNCHANGED <<doc, input, stack, refs, nsScopes, descs, rootDesc, options,
                 sval, xml, calls, px>>

----------------------------------------------------------------------------
(* Documents given to xmlToJson, as the token sequences the tokenizer      *)
(* delivers for them.                                                      *)

MaxItems == 3       \* content items (elements, text chunks) of one parent
MaxAttrs == 3       \* attributes of one generated open tag
MaxRefElems == 2    \* top-level elements of a multiref document

RECURSIVE ConcatAll(_)
ConcatAll(seqs) ==
  IF Len(seqs) = 0 THEN <<>> ELSE Head(seqs) \o ConcatAll(Tail(seqs))

\* Sequences over S of length lo..hi
SeqsOf(S, lo, hi) == UNION {[1..n -> S] : n \in lo..hi}

Element(name, attrs, content) ==
  <<OpenTok(name, attrs)>> \o content \o <<CloseTok(name)>>

XsiDecl == Attr("xmlns:xsi", XSI)
NilTrue == Attr("xsi:nil", "true")

\* <r xmlns:xsi=...> with up to MaxItems content items: repeated and
\* distinct children, nil children, text, white space and CDATA.
PromotionItems ==
  {Element("x", <<>>, <<TextTok("1")>>),
   Element("x", <<>>, <<TextTok("2")>>),
   Element("x", <<>>, <<>>),
   Element("x", <<NilTrue>>, <<>>),
   Element("y", <<>>, <<TextTok("1")>>),
   <<TextTok("t")>>,
   <<TextTok(" ")>>,
   <<CDataTok("c")>>}

PromotionDocs ==
  {Element("r", pattrs, ConcatAll(items)) :
     pattrs \in {<<XsiDecl>>, <<XsiDecl, NilTrue>>, <<XsiDecl, Attr("k", "1")>>},
     items \in SeqsOf(PromotionItems, 0, MaxItems)}

\* <r><e>chunks</e></r> for an element e of number, boolean or string
\* type, with and without an attribute: up to MaxChunks chunks of text and
\* CDATA, as a comment or a CDATA section between them makes the tokenizer
\* deliver them
MaxChunks == 3

ChunkDocs ==
  {Element("r", <<XsiDecl>>, Element(nm, eattrs, chunks)) :
     nm \in {"x", "y", "b"},
     eattrs \in {<<>>, <<Attr("k", "1")>>},
     chunks \in SeqsOf({TextTok("1"), TextTok("2"), TextTok(" "), CDataTok("1")},
                       1, MaxChunks)}

\* <x ...> with up to MaxAttrs attributes of distinct names, in every order.
AttrPool ==
  {XsiDecl, NilTrue, Attr("xsi:nil", "false"), Attr("k", "1"), Attr("id", "1"),
   Attr("xsi:type", "q:Sub"), Attr("xmlns:q", "urn:q")}

AttrLists ==
  {as \in SeqsOf(AttrPool, 0, MaxAttrs) :
     \A i, j \in 1..Len(as) : i # j => as[i].name # as[j].name}

AttributeDocs ==
  {Element("x", as, content) :
     as \in AttrLists,
     content \in {<<>>, <<TextTok("1")>>, Element("v", <<>>, <<TextTok("5")>>)}}
  \cup
  {Element("r", <<XsiDecl>>, Element("x", as, <<>>)) : as \in AttrLists}

\* Up to MaxRefElems top-level elements a, b that carry id or href.
RefItems ==
  {Element(name, <<att>>, content) :
     name \in {"a", "b"},
     att \in {Attr("id", "1"), Attr("href", "#1"), Attr("id", "2"), Attr("href", "#2")},
     content \in {<<>>, Element("v", <<>>, <<TextTok("5")>>)}}

RefDocs == {ConcatAll(items) : items \in SeqsOf(RefItems, 1, MaxRefElems)}

\* Envelopes: with and without Body and Fault, the Fault fields absent,
\* plain text, attribute-carrying, structured, empty or nil.
SoapDecl == Attr("xmlns:soap", "http://schemas.xmlsoap.org/soap/envelope/")

FaultField(name) ==
  {<<>>,
   Element(name, <<>>, <<TextTok(name)>>),
   Element(name, <<Attr("k", "1")>>, <<TextTok(name)>>),
   Element(name, <<>>, Element("v", <<>>, <<TextTok("5")>>)),
   Element(name, <<>>, <<>>),
   Element(name, <<NilTrue>>, <<>>)}

FaultBodies ==
  {code \o string \o actor \o detail \o code12 :
     code \in FaultField("faultcode"),
     string \in {f \in FaultField("faultstring") : Len(f) # 2},
     actor \in {f \in FaultField("faultactor") : Len(f) \in {0, 3}},
     detail \in FaultField("detail"),
     code12 \in {f \in FaultField("Code") : Len(f) \in {0, 5}}}
  \cup {<<TextTok("t")>>}

\* SOAP 1.2 shaped faults: a Code, then any of the other fields
Fault12Field(name) == {<<>>, Element(name, <<>>, <<TextTok(name)>>)}

Fault12Bodies ==
  {Element("Code", <<>>, Element("Value", <<>>, <<TextTok("c")>>))
     \o value \o subcode \o reason \o node \o role \o detail :
     value \in Fault12Field("Value"),
     subcode \in Fault12Field("Subcode"),
     reason \in Fault12Field("Reason"),
     node \in Fault12Field("Node"),
     role \in Fault12Field("Role"),
     detail \in Fault12Field("Detail")}
  \cup {Element("Code", <<>>, <<TextTok("c")>>)
          \o Element("Reason", <<Attr("k", "1")>>, <<TextTok("why")>>)
          \o Element("Detail", <<>>, Element("v", <<>>, <<TextTok("5")>>)),
        Element("Code", <<Attr("k", "1")>>, <<>>)
          \o Element("Value", <<>>, <<>>)
          \o Element("Detail", <<NilTrue>>, <<>>),
        Element("Reason", <<>>, <<TextTok("why")>>)}

BodyContents ==
  {<<>>, <<TextTok("t")>>, Element("r", <<>>, <<TextTok("1")>>)}
  \cup {Element("soap:Fault", fattrs, fb) :
          fattrs \in {<<>>}, fb \in FaultBodies \cup Fault12Bodies}
  \cup {Element("soap:Fault", <<NilTrue>>, <<>>)}

EnvelopeContents ==
  {<<>>, <<TextTok("t")>>, Element("soap:Header", <<>>, <<>>)}
  \cup {Element("soap:Body", <<>>, bc) : bc \in BodyContents}
  \cup {Element("soap:Body", <<NilTrue>>, <<>>)}

EnvelopeDocs ==
  {Element("soap:Envelope", <<SoapDecl, XsiDecl>>, ec) : ec \in EnvelopeContents}
  \cup {Element("soap:Envelope", <<SoapDecl, XsiDecl, NilTrue>>, <<>>),
        Element("r", <<SoapDecl, XsiDecl>>,
                Element("soap:Body", <<>>,
                        Element("soap:Fault", <<>>,
                                Element("faultcode", <<>>, <<TextTok("c")>>))))}

Docs ==
  PromotionDocs \cup AttributeDocs \cup RefDocs \cup EnvelopeDocs \cup ChunkDocs

\* The descriptor store of the model:
\*   1 a type with the one element r
\*   2 r, structured: children x, y, c, b, w, n and attributes k, j; its
\*     inheritance table gives subtype Sub the extension 8
\*   3 x, repeatable Number        4 y, nillable Boolean
\*   5 c, qualified (urn:a, prefix p), structured, with child b
\*   6 b, qualified (urn:a, prefix q), String
\*   7 attribute k, Number         8 the extension type Sub, with element v
\*   9 v, String                   10 w, nillable dateTime
\*   11 n, nillable, structured    12 attribute j, String
Schema ==
  << [Desc("type", "") EXCEPT !.elements = <<2>>],
     [Desc("element", "r") EXCEPT !.elements = <<3, 4, 5, 6, 10, 11>>,
                                  !.attributes = <<7, 12>>,
                                  !.inheritance = <<[type |-> "Sub", ext |-> 8]>>],
     [Desc("element", "x") EXCEPT !.isMany = TRUE, !.isSimple = TRUE,
                                  !.typeName = "int", !.jsType = "Number"],
     [Desc("element", "y") EXCEPT !.isSimple = TRUE, !.isNillable = TRUE,
                                  !.typeName = "boolean", !.jsType = "Boolean"],
     [Desc("element", "c") EXCEPT !.form = "qualified", !.prefix = "p",
                                  !.nsURI = "urn:a", !.elements = <<6>>],
     [Desc("element", "b") EXCEPT !.form = "qualified", !.prefix = "q",
                                  !.nsURI = "urn:a", !.isSimple = TRUE,
                                  !.typeName = "string", !.jsType = "String"],
     [Desc("attribute", "k") EXCEPT !.typeName = "int", !.jsType = "Number"],
     [Desc("type", "Sub") EXCEPT !.elements = <<9>>],
     [Desc("element", "v") EXCEPT !.isSimple = TRUE, !.typeName = "string",
                                  !.jsType = "String"],
     [Desc("element", "w") EXCEPT !.isSimple = TRUE, !.isNillable = TRUE,
                                  !.typeName = "dateTime", !.jsType = "Date"],
     [Desc("element", "n") EXCEPT !.isNillable = TRUE],
     [Desc("attribute", "j") EXCEPT !.typeName = "string", !.jsType = "String"] >>

\* No parseXml call is running
NoParse ==
  [phase |-> "idle", input |-> <<>>, nodes |-> <<>>, stack |-> <<>>,
   current |-> 0, hasCb |-> FALSE, errors |-> 0, queue |-> <<>>,
   called |-> <<>>]

NoXml ==
  [nodes |-> <<>>, ns |-> NewNamespaceContext, descs |-> <<>>, err |-> "",
   low |-> 1, high |-> 1]

\* The state xmlToJson starts in (lines 556-561) for a document and a
\* descriptor d.
ParserStart(document, d) ==
  /\ doc = document
  /\ input = document
  /\ stack = <<Frame("", root, d, Undef, NoTag)>>
  /\ heap = << <<>> >>
  /\ refs = <<>>
  /\ nsScopes = NewNamespaceContext
  /\ pstate = "parsing"
  /\ result = Undef
  /\ error = NoError
  /\ rootDesc = d

Init ==
  /\ \E document \in Docs, d \in {0, 1} : ParserStart(document, d)
  /\ descs = Schema
  /\ options = DefaultOptions
  /\ sval = Undef
  /\ xml = NoXml
  /\ calls = 0
  /\ last = [op |-> "init", name |-> ""]
  /\ px = NoParse

Next ==
  \/ OnOpenTag
  \/ OnCloseTag
  \/ OnText
  \/ OnCData
  \/ End

Spec == Init /\ [][Next]_vars

----------------------------------------------------------------------------
(* The XML builder.  A document under construction is a sequence of nodes  *)
(* [kind, name, parent, attrs, text, desc] in document order; node 1 is    *)
(* the node given to the outermost call.  desc records the descriptor an   *)
(* element was created for; the code never reads it back.                  *)
(* The state threaded through the serializer is [nodes, ns, descs, err]:   *)
(* err names the exception that ended the call, "" when none did.          *)

XmlNode(kind, name, parent, text, desc) ==
  [kind |-> kind, name |-> name, parent |-> parent, attrs |-> <<>>,
   text |-> text, desc |-> desc]

NewDocument(ns, ds) ==
  [nodes |-> <<XmlNode("doc", "", 0, "", 0)>>, ns |-> ns, descs |-> ds, err |-> "",
   low |-> Len(ns), high |-> Len(ns)]

IsScalar(v) == v.t \in {"str", "num", "bool", "date"}

SetAttr(attrs, name, value) ==
  IF \E i \in 1..Len(attrs) : attrs[i].name = name
  THEN [i \in 1..Len(attrs) |->
          IF attrs[i].name = name THEN Attr(name, value) ELSE attrs[i]]
  ELSE Append(attrs, Attr(name, value))

AddNode(bs, n) == [bs EXCEPT !.nodes = Append(@, n)]

\* node.attribute(name, val)
attribute(bs, node, name, val) ==
  [bs EXCEPT !.nodes[node].attrs = SetAttr(@, name, JsToString(val))]

\* node.element(name) and node.element(name, val), val a scalar or nothing;
\* the new element is the node at Len(bs.nodes) + 1.
element(bs, node, name, val, d) ==
  LET b1 == AddNode(bs, XmlNode("element", name, node, "", d))
  IN IF IsScalar(val)
     THEN AddNode(b1, XmlNode("text", "", Len(b1.nodes), JsToString(val), 0))
     ELSE b1

\* node.text(val), node.cdata(val), node.raw(val)
text(bs, node, val) == AddNode(bs, XmlNode("text", "", node, JsToString(val), 0))
cdata(bs, node, val) == AddNode(bs, XmlNode("cdata", "", node, JsToString(val), 0))
raw(bs, node, val) == AddNode(bs, XmlNode("raw", "", node, JsToString(val), 0))

Throw(bs, kind) == [bs EXCEPT !.err = kind]

\* declareNamespace(nsContext, node, prefix, nsURI), node = 0 for null.
\* Result: [bs, mapping].
declareNamespace(bs, node, prefix, nsURI) ==
  LET r == nsDeclareNamespace(bs.ns, prefix, nsURI)
      b1 == [bs EXCEPT !.ns = r.ns]
  IN [bs |-> IF node # 0
             THEN attribute(b1, node, "xmlns:" \o r.mapping.prefix,
                            Str(r.mapping.uri))
             ELSE b1,
      mapping |-> r.mapping]

----------------------------------------------------------------------------
(* Dates and times (lines 870-896) *)

IsoSample == "2020-01-02T03:04:05.000Z"

\* new Date(val).toISOString(), "" when the date is invalid (toISOString
\* then throws a RangeError).
ToISOString(val) ==
  CASE val.t \in {"date", "str"} /\ val.s = IsoSample -> IsoSample
    [] val.t \in {"num", "bool"} /\ val.s # "NaN" /\ val.n \in 0..9 ->
         "1970-01-01T00:00:00.00" \o ToString(val.n) \o "Z"
    [] val.t = "null" -> "1970-01-01T00:00:00.000Z"
    [] OTHER -> ""

\* isoStr.split('T')[1]
TimeOfIso(val) ==
  CASE val.t \in {"date", "str"} -> "03:04:05.000Z"
    [] val.t \in {"num", "bool"} -> "00:00:00.00" \o ToString(val.n) \o "Z"
    [] OTHER -> "00:00:00.000Z"

\* toXmlDateOrTime(descriptor, val): [val, threw]
toXmlDateOrTime(ds, d, val) ==
  LET typeName == IF d = 0 THEN "" ELSE ds[d].typeName
  IN IF d = 0 \/ typeName = "" \/ val.t = "null"
     THEN [val |-> val, threw |-> FALSE]
     ELSE CASE typeName = "time" ->
                 [val |-> Str(TimeOfIso(val)), threw |-> ToISOString(val) = ""]
            [] typeName = "dateTime" ->
                 [val |-> Str(ToISOString(val)), threw |-> ToISOString(val) = ""]
            [] OTHER -> [val |-> val, threw |-> FALSE]

----------------------------------------------------------------------------
(* jsonToXml, mapObject, addAttributes (lines 33-381) *)

\* this.schemas, flattened: the types that can be described, each with the
\* index of the descriptor describe() gives for it.
Schemas == << [nsURI |-> "urn:t", name |-> "Sub", desc |-> 8] >>

\* The name an xsi-type-key entry gives: QName.parse(child.type, child.xmlns)
\* for an object with a type field, QName.parse(child) otherwise.
XsiTypeOf(child) ==
  IF child.t = "map" /\ GetKey(child.items, "type").t # "undef"
  THEN [qname |-> QNameParse(JsToString(GetKey(child.items, "type"))),
        nsURI |-> IF GetKey(child.items, "xmlns").t = "str"
                  THEN GetKey(child.items, "xmlns").s ELSE ""]
  ELSE [qname |-> QNameParse(JsToString(child)), nsURI |-> ""]

\* getXsiType that looks the type up by its name in every schema
getXsiTypeByName(attrs) ==
  IF attrs.t = "map" /\ HasKey(attrs.items, xsiTypeKey)
  THEN LET x == XsiTypeOf(GetKey(attrs.items, xsiTypeKey))
           hit == SelectSeq(Schemas, LAMBDA t : t.name = x.qname.name)
       IN IF Len(hit) = 0 THEN 0 ELSE hit[1].desc
  ELSE 0

\* getXsiType(descriptor, attrs): the descriptor of the type the attribute
\* map names, 0 when it names none or the schemas do not describe it.
getXsiType(attrs) ==
  IF attrs.t = "map" /\ HasKey(attrs.items, xsiTypeKey)
  THEN LET x == XsiTypeOf(GetKey(attrs.items, xsiTypeKey))
           hit == SelectSeq(Schemas,
                            LAMBDA t : t.nsURI = x.nsURI /\ t.name = x.qname.name)
       IN IF Len(hit) = 0 THEN 0 ELSE hit[1].desc
  ELSE 0

\* order.indexOf(n), or order.length
RankIn(order, n) ==
  IF \E i \in 1..Len(order) : order[i] = n
  THEN CHOOSE i \in 1..Len(order) :
         order[i] = n /\ \A j \in 1..(i - 1) : order[j] # n
  ELSE Len(order) + 1

\* _sortKeys that leaves the keys in the order of the object
sortKeysAsGiven(keys, elementOrder) == keys

\* _sortKeys(val, elementOrder): keys is Object.keys(val).  The sort is
\* stable: by rank in elementOrder, then by position in keys.
RECURSIVE SortFrom(_, _, _)
SortFrom(keys, order, r) ==
  IF r > Len(order) + 1 THEN <<>>
  ELSE SelectSeq(keys, LAMBDA k : RankIn(order, k) = r) \o SortFrom(keys, order, r + 1)

sortKeys(keys, elementOrder) == SortFrom(keys, elementOrder, 1)

\* elements[name] / attributes[name] of the lookup tables built from a list
\* of descriptors: the last descriptor of that name, 0 when there is none.
Lookup(ds, list, name) ==
  IF \E i \in 1..Len(list) : ds[list[i]].name = name
  THEN list[CHOOSE i \in 1..Len(list) :
              /\ ds[list[i]].name = name
              /\ \A j \in (i + 1)..Len(list) : ds[list[j]].name # name]
  ELSE 0

\* Lines 173-194: the elements the inheritance table adds to the descriptor
\* for the subtypes the attribute map names.
RECURSIVE ExtendElements(_, _, _, _)
ExtendElements(ds, d, attrs, i) ==
  IF i > Len(attrs) THEN ds
  ELSE LET child == attrs[i].v
           typeName == IF child.t = "map" /\ GetKey(child.items, "type").t = "str"
                       THEN GetKey(child.items, "type").s ELSE ""
           ext == SelectSeq(ds[d].inheritance, LAMBDA e : e.type = typeName)
       IN IF attrs[i].k = xsiTypeKey /\ Len(ext) > 0
          THEN ExtendElements(
                 [ds EXCEPT ![d].elements = @ \o ds[ext[1].ext].elements],
                 d, attrs, i + 1)
          ELSE ExtendElements(ds, d, attrs, i + 1)

\* '<![CDATA[...]]>' texts of the model, with what is left of each after
\* val.replace('<![CDATA[', '').replace(']]>', '')
CDataTable == [marked \in {"<![CDATA[c]]>"} |-> "c"]

\* Line 96 taken for true whatever mapping is visible
NewlyDeclaredAlways(mapping) == TRUE

\* Line 96: the namespace still has to be declared
NewlyDeclared(mapping) == mapping = NoMapping \/ ~mapping.declared

\* Line 329 without Array.isArray(child)
UnknownElementNeverMany(p, child) == Desc("element", QNameParse(p).name)

\* Lines 328-330 and 375: the descriptors made up for an unknown property
UnknownElement(p, child) ==
  [Desc("element", QNameParse(p).name) EXCEPT !.isMany = child.t = "arr"]
UnknownAttribute(p) == Desc("attribute", QNameParse(p).name)

\* Lines 168-170, 211-213 and 217-219 without the popContext
PopNothing(bs) == bs

\* low keeps the least depth the scopes had during the call
Pop(bs) ==
  IF bs.err = ""
  THEN [bs EXCEPT !.ns = popContext(@),
                  !.low = IF Len(bs.ns) - 1 < @ THEN Len(bs.ns) - 1 ELSE @]
  ELSE bs

RECURSIVE jsonToXml(_, _, _, _, _)
RECURSIVE mapObject(_, _, _, _, _, _)
RECURSIVE MapArray(_, _, _, _, _, _)
RECURSIVE MapProperties(_, _, _, _, _, _, _, _)
RECURSIVE MapAttributes(_, _, _, _, _, _)

\* addAttributes(node, nsContext, descriptor, val, attrs)
addAttributes(bs, node, d, attrs, opt) ==
  IF bs.err # "" \/ attrs.t # "map" THEN bs
  ELSE MapAttributes(bs, node, IF d = 0 THEN <<>> ELSE bs.descs[d].attributes,
                     attrs.items, 1, opt)

\* Lines 355-369: the xsi:type attribute for the type x, r the result of
\* declaring its namespace
XsiTypeAttribute(r, node, x) ==
  attribute(r.bs, node, "xsi:type", Str(QFormat(r.mapping.prefix, x.qname.name)))

XsiTypeToXml(bs, node, x) ==
  XsiTypeAttribute(
    declareNamespace(declareNamespace(bs, node, "xsi", XSI).bs, node,
                     x.qname.prefix, x.nsURI),
    node, x)

\* Lines 371-378: the attribute pname, known its declared descriptor or 0
AttributeEntry(bs, node, known, pname, child, opt) ==
  IF known # 0 THEN jsonToXml(bs, node, known, child, opt)
  ELSE IF opt.ignoreUnknownProperties THEN bs
  ELSE jsonToXml([bs EXCEPT !.descs = Append(@, UnknownAttribute(pname))],
                 node, Len(bs.descs) + 1, child, opt)

\* Lines 352-379
MapAttributes(bs, node, atts, items, i, opt) ==
  IF i > Len(items) \/ bs.err # "" THEN bs
  ELSE MapAttributes(
         IF items[i].k = xsiTypeKey
         THEN XsiTypeToXml(bs, node, XsiTypeOf(items[i].v))
         ELSE AttributeEntry(bs, node, Lookup(bs.descs, atts, items[i].k),
                             items[i].k, items[i].v, opt),
         node, atts, items, i + 1, opt)

\* Lines 50-55: a qualified attribute, r the result of declaring its
\* namespace
QualifiedAttribute(r, node, name, val) ==
  attribute(r.bs, node, QFormat(r.mapping.prefix, name), val)

\* Lines 45-58: an AttributeDescriptor; v is the formatted value
AttributeWith(bs, node, desc, v) ==
  IF v.threw THEN Throw(bs, "RangeError")
  ELSE IF desc.form = "unqualified" THEN attribute(bs, node, desc.name, v.val)
  ELSE QualifiedAttribute(declareNamespace(bs, node, desc.prefix, desc.nsURI),
                          node, desc.name, v.val)

AttributeToXml(bs, node, d, val) ==
  AttributeWith(bs, node, bs.descs[d], toXmlDateOrTime(bs.descs, d, val))

\* Lines 64-71 without the loop: the first entry only
MapArrayOnce(bs, node, d, vals, i, opt) ==
  IF i > Len(vals) \/ bs.err # "" THEN bs
  ELSE jsonToXml(bs, node, d, vals[i], opt)

\* Lines 64-71: one element per entry of an array
MapArray(bs, node, d, vals, i, opt) ==
  IF i > Len(vals) \/ bs.err # "" THEN bs
  ELSE MapArray(jsonToXml(bs, node, d, vals[i], opt), node, d, vals, i + 1, opt)

(* An element is built in steps over a context cx = [bs, node, d, val,     *)
(* attrs, name, xmlns, el]: the builder state, the parent node, the        *)
(* descriptor, the working value, the attribute map taken from the value,  *)
(* the element's name, the name of the xmlns attribute it needs ("" for    *)
(* none) and the element created.                                          *)

\* Lines 72-81 and the pushContext of lines 87 and 90
ElementValue(bs, node, d, val) ==
  [bs |-> [bs EXCEPT !.ns = pushContext(@),
                     !.high = IF Len(bs.ns) + 1 > @ THEN Len(bs.ns) + 1 ELSE @],
   node |-> node, d |-> d,
   val |-> IF val.t = "map" /\ GetKey(val.items, valueKey).t # "undef"
           THEN GetKey(val.items, valueKey) ELSE val,
   attrs |-> IF val.t = "map" /\ GetKey(val.items, attributesKey).t # "undef"
             THEN GetKey(val.items, attributesKey) ELSE Null,
   name |-> "", xmlns |-> "", el |-> 0]

\* Lines 101-107, r the result of declaring the namespace
DeclaredName(cx, r) ==
  [cx EXCEPT !.bs = r.bs,
             !.name = QFormat(r.mapping.prefix, cx.bs.descs[cx.d].name),
             !.xmlns = IF r.mapping.prefix # "" THEN "xmlns:" \o r.mapping.prefix
                       ELSE "xmlns"]

\* Lines 93-103, mapping the visible mapping of the element's namespace
QualifiedName(cx, desc, mapping) ==
  IF NewlyDeclared(mapping)
  THEN DeclaredName(cx, declareNamespace(cx.bs, 0, desc.prefix, desc.nsURI))
  ELSE [cx EXCEPT !.name = QFormat(mapping.prefix, desc.name)]

\* Lines 85-108
ElementName(cx, desc) ==
  IF desc.form = "unqualified" THEN [cx EXCEPT !.name = desc.name]
  ELSE QualifiedName(cx, desc, getPrefixMapping(cx.bs.ns, desc.nsURI))

\* Lines 141-142, v the formatted value
CreatePlain(cx, desc, v) ==
  IF v.threw THEN [cx EXCEPT !.bs = Throw(@, "RangeError")]
  ELSE [cx EXCEPT !.bs = element(@, cx.node, cx.name,
                                 IF desc.isSimple THEN v.val ELSE Undef, cx.d),
                  !.val = v.val,
                  !.el = Len(cx.bs.nodes) + 1]

\* Lines 118-121, v the formatted value
CreateRaw(cx, v) ==
  IF v.threw
  THEN [cx EXCEPT !.bs = Throw(element(@, cx.node, cx.name, Undef, cx.d),
                               "RangeError")]
  ELSE [cx EXCEPT !.bs = raw(element(@, cx.node, cx.name, Undef, cx.d),
                             Len(cx.bs.nodes) + 1, v.val),
                  !.val = v.val,
                  !.el = Len(cx.bs.nodes) + 1]

\* Lines 111-143
ElementCreate(cx, desc) ==
  IF desc.isSimple /\ cx.val.t = "str" /\ cx.val.s \in DOMAIN CDataTable
  THEN [cx EXCEPT !.bs = cdata(element(@, cx.node, cx.name, Undef, cx.d),
                               Len(cx.bs.nodes) + 1, Str(CDataTable[cx.val.s])),
                  !.val = Str(CDataTable[cx.val.s]),
                  !.el = Len(cx.bs.nodes) + 1]
  ELSE IF desc.isSimple /\ cx.val.t = "map"
            /\ GetKey(cx.val.items, xmlKey).t # "undef"
  THEN CreateRaw(cx, toXmlDateOrTime(cx.bs.descs, cx.d,
                                     GetKey(cx.val.items, xmlKey)))
  ELSE CreatePlain(cx, desc, toXmlDateOrTime(cx.bs.descs, cx.d, cx.val))

\* Lines 145-149
ElementXmlns(cx, desc) ==
  IF cx.bs.err = "" /\ cx.xmlns # "" /\ desc.nsURI # ""
  THEN [cx EXCEPT !.bs = attribute(@, cx.el, cx.xmlns, Str(desc.nsURI))]
  ELSE cx

\* Lines 151-159
ElementNil(cx, desc) ==
  IF cx.bs.err = "" /\ IsNullish(cx.val) /\ desc.isNillable
  THEN [cx EXCEPT !.bs = attribute(declareNamespace(@, cx.el, "xsi", XSI).bs,
                                   cx.el, "xsi:nil", Bool(TRUE))]
  ELSE cx

\* Lines 173-194: the working value's own attribute map extends the
\* descriptor
ElementExtend(cx, own) ==
  IF own.t = "map"
  THEN [cx EXCEPT !.bs.descs = ExtendElements(@, cx.d, own.items, 1)]
  ELSE cx

\* Lines 196-209, v the value formatted once more
ElementText(cx, v, opt) ==
  IF v.threw THEN Throw(cx.bs, "RangeError")
  ELSE Pop(IF ~IsNullish(cx.attrs)
           THEN addAttributes(text(cx.bs, cx.el, v.val), cx.el, cx.d, cx.attrs, opt)
           ELSE text(cx.bs, cx.el, v.val))

\* Lines 173-215, for an element that is not simple
ElementChildren(cx, opt) ==
  IF IsScalar(cx.val)
  THEN ElementText(cx, toXmlDateOrTime(cx.bs.descs, cx.d, cx.val), opt)
  ELSE Pop(mapObject(cx.bs, cx.el, cx.d, cx.val, cx.attrs, opt))

\* Lines 161-215
ElementContent(cx, desc, opt) ==
  IF cx.bs.err # "" THEN cx.bs
  ELSE IF desc.isSimple
  THEN Pop(IF cx.attrs.t = "map"
           THEN addAttributes(cx.bs, cx.el, cx.d, cx.attrs, opt)
           ELSE cx.bs)
  ELSE ElementChildren(
         ElementExtend(cx, IF cx.val.t = "map"
                           THEN GetKey(cx.val.items, attributesKey) ELSE Undef),
         opt)

\* Lines 60-216: an ElementDescriptor and a value that is not spread over
\* several elements
ElementToXml(bs, node, d, val, desc, opt) ==
  ElementContent(
    ElementNil(
      ElementXmlns(
        ElementCreate(ElementName(ElementValue(bs, node, d, val), desc), desc),
        desc),
      desc),
    desc, opt)

\* jsonToXml(node, nsContext, descriptor, val), d = 0 for no descriptor
jsonToXml(bs, node, d, val, opt) ==
  IF bs.err # "" THEN bs
  ELSE IF d = 0 THEN mapObject(bs, node, 0, val, Undef, opt)
  ELSE CASE bs.descs[d].kind = "attribute" -> AttributeToXml(bs, node, d, val)
         [] bs.descs[d].kind = "element" ->
              IF bs.descs[d].isMany /\ val.t = "arr"
              THEN MapArray(bs, node, d, val.items, 1, opt)
              ELSE ElementToXml(bs, node, d, val, bs.descs[d], opt)
         [] OTHER -> mapObject(bs, node, d, val, Undef, opt)

\* Lines 325-335: the property pname, known its declared descriptor or 0
PropertyEntry(bs, node, known, pname, child, opt) ==
  IF known # 0 THEN jsonToXml(bs, node, known, child, opt)
  ELSE IF opt.ignoreUnknownProperties THEN bs
  ELSE jsonToXml([bs EXCEPT !.descs = Append(@, UnknownElement(pname, child))],
                 node, Len(bs.descs) + 1, child, opt)

\* elements[p] || attributes[p]
ChildDescriptor(ds, elems, atts, pname) ==
  IF Lookup(ds, elems, pname) # 0 THEN Lookup(ds, elems, pname)
  ELSE Lookup(ds, atts, pname)

\* Lines 322-336: the properties of val in the order names; elems and atts
\* are the descriptor's lists the lookup tables were built from.
MapProperties(bs, node, elems, atts, val, names, i, opt) ==
  IF i > Len(names) \/ bs.err # "" THEN bs
  ELSE MapProperties(
         IF names[i] = attributesKey THEN bs
         ELSE PropertyEntry(bs, node,
                            ChildDescriptor(bs.descs, elems, atts, names[i]),
                            names[i], GetKey(val.items, names[i]), opt),
         node, elems, atts, val, names, i + 1, opt)

\* Lines 299-339, d the descriptor left after the xsi-type substitution and
\* elems, atts its lists
MapObjectWith(bs, node, d, elems, atts, val, attrs, opt) ==
  addAttributes(
    IF val.t = "map"
    THEN MapProperties(bs, node, elems, atts, val,
                       sortKeys(Keys(val.items),
                                [i \in 1..Len(elems) |-> bs.descs[elems[i]].name]),
                       1, opt)
    ELSE bs,
    node, d, attrs, opt)

\* Lines 289-293, v the formatted value
MapScalar(bs, node, v) ==
  IF v.threw THEN Throw(bs, "RangeError") ELSE text(bs, node, v.val)

\* Lines 296-297: xsiType || descriptor
Substituted(d, xsiType) == IF xsiType # 0 THEN xsiType ELSE d

MapObjectAs(bs, node, d, val, attrs, opt) ==
  MapObjectWith(bs, node, d,
                IF d = 0 THEN <<>> ELSE bs.descs[d].elements,
                IF d = 0 THEN <<>> ELSE bs.descs[d].attributes,
                val, attrs, opt)

\* mapObject(node, nsContext, descriptor, val, attrs)
mapObject(bs, node, d, val, attrs, opt) ==
  IF bs.err # "" \/ IsNullish(val) THEN bs
  ELSE IF IsScalar(val)
  THEN MapScalar(bs, node, toXmlDateOrTime(bs.descs, d, val))
  ELSE MapObjectAs(bs, node, Substituted(d, getXsiType(attrs)), val, attrs, opt)

----------------------------------------------------------------------------
(* Serializing a value and parsing the document back: a second             *)
(* specification over the same handler.                                    *)

\* The tokens the tokenizer delivers for the printed document below node i.
RECURSIVE NodeTokens(_, _)
NodeTokens(nodes, i) ==
  LET kids == SelectSeq([j \in 1..Len(nodes) |-> j],
                        LAMBDA j : nodes[j].parent = i)
      below == ConcatAll([k \in 1..Len(kids) |-> NodeTokens(nodes, kids[k])])
  IN CASE nodes[i].kind = "element" ->
            <<OpenTok(nodes[i].name, nodes[i].attrs)>> \o below
              \o <<CloseTok(nodes[i].name)>>
       [] nodes[i].kind = "text" ->
            IF nodes[i].text = "" THEN <<>> ELSE <<TextTok(nodes[i].text)>>
       [] nodes[i].kind = "cdata" -> <<CDataTok(nodes[i].text)>>
       [] nodes[i].kind = "raw" ->
            IF nodes[i].text = "<v>5</v>"
            THEN Element("v", <<>>, <<TextTok("5")>>)
            ELSE <<TextTok(nodes[i].text)>>
       [] OTHER -> below

\* Values for the element r: every choice of an attribute map, a repeatable
\* x, a nillable y, a structured c and a text b.
Entry(key, vals) == {<<>>} \cup {<<KV(key, v)>> : v \in vals}

DescribedObjects ==
  {Map(a \o x \o y \o c \o b) :
     a \in Entry(attributesKey, {Map(<<KV("k", Num(1))>>), Map(<<KV("j", Str("s"))>>)}),
     x \in Entry("x", {Arr(<<Num(1)>>), Arr(<<Num(1), Num(2)>>)}),
     y \in Entry("y", {Bool(TRUE), Bool(FALSE), Null}),
     c \in Entry("c", {Map(<<KV("b", Str("t"))>>)}),
     b \in Entry("b", {Str("t")})} \ {Map(<<>>)}

XsiTypeEntry(name, ns) ==
  KV(attributesKey,
     Map(<<KV(xsiTypeKey, Map(<<KV("type", Str(name)), KV("xmlns", Str(ns))>>))>>))

\* Values with properties the descriptor does not declare, with an
\* xsi-type-key entry, and values at the edge of what r describes.
OtherObjects ==
  {Map(<<KV("u", Str("t"))>>),
   Map(<<KV("u", Arr(<<Str("t"), Str("s")>>))>>),
   Map(<<KV("u", Arr(<<>>))>>),
   Map(<<KV("q:u", Str("t"))>>),
   Map(<<KV("u", Str("t")), KV("x", Arr(<<Num(1)>>))>>),
   Map(<<KV("u", Map(<<KV("x", Num(1))>>))>>),
   Map(<<KV(attributesKey, Map(<<KV("z", Str("s"))>>)), KV("y", Bool(TRUE))>>),
   Map(<<KV(attributesKey, Map(<<KV("z", Str("s")), KV("j", Str("s"))>>)),
         KV("u", Str("t")), KV("b", Str("t"))>>),
   Map(<<XsiTypeEntry("Sub", "urn:a"), KV("v", Str("t"))>>),
   Map(<<XsiTypeEntry("Sub", "urn:a"), KV("x", Arr(<<Num(1)>>))>>),
   Map(<<XsiTypeEntry("q:Sub", "urn:a")>>),
   Map(<<XsiTypeEntry("q:Sub", "urn:a"), KV("b", Str("t"))>>),
   Map(<<KV("c", Map(<<KV("b", Map(<<XsiTypeEntry("Sub", "urn:a"),
                                     KV(valueKey, Str("t"))>>))>>))>>),
   Map(<<XsiTypeEntry("Sub", "urn:t"), KV("v", Str("t"))>>),
   Map(<<XsiTypeEntry("Other", "urn:a"), KV("y", Bool(TRUE))>>),
   Map(<<XsiTypeEntry("Other", "urn:t"), KV("y", Bool(TRUE)), KV("u", Str("t"))>>),
   Map(<<KV("b", Str("<![CDATA[c]]>"))>>),
   Map(<<KV("b", Str(" 1 "))>>),
   Map(<<KV("b", Map(<<KV(xmlKey, Str("<v>5</v>"))>>))>>),
   Map(<<KV("x", Num(1))>>),
   Map(<<KV("x", Arr(<<>>))>>),
   Map(<<KV("y", Undef)>>),
   Map(<<KV("w", Str(IsoSample))>>),
   Map(<<KV("w", Null)>>),
   Map(<<KV("n", Null)>>),
   Map(<<>>)}

\* Null and absent values, bare and under the value-key
NilValues ==
  {Null, Undef, Map(<<KV(valueKey, Null)>>),
   Map(<<KV(attributesKey, Map(<<KV("j", Str("s"))>>)), KV(valueKey, Null)>>)}

\* Arrays for the repeatable element x: empty, of one to three entries,
\* with entries that are numbers, null, or objects with a value-key
ManyValues ==
  {Arr(<<>>), Arr(<<Num(1)>>), Arr(<<Num(2), Num(1)>>),
   Arr(<<Num(2), Num(1), Num(2)>>), Arr(<<Null, Num(1)>>),
   Arr(<<Map(<<KV(attributesKey, Map(<<KV("j", Str("s"))>>)),
               KV(valueKey, Num(1))>>), Num(2)>>)}

\* Values for the element r whose keys come in every order: declared
\* elements (x, y, b), unknown properties (u, z) and the attribute map
MaxKeys == 3

KeyPool ==
  {KV("x", Arr(<<Num(1), Num(2)>>)), KV("y", Bool(TRUE)), KV("b", Str("t")),
   KV("u", Str("t")), KV("z", Str("s")),
   KV(attributesKey, Map(<<KV("j", Str("s"))>>))}

OrderObjects ==
  {Map(es) : es \in {q \in SeqsOf(KeyPool, 2, MaxKeys) :
                       \A i, j \in 1..Len(q) : i # j => q[i].k # q[j].k}}

\* The calls of the model: a descriptor and a value
Call(d, v) == [d |-> d, v |-> v]

Calls ==
  {Call(2, v) : v \in DescribedObjects \cup OtherObjects}
  \cup {Call(1, Map(<<KV("r", v)>>)) : v \in DescribedObjects \cup OtherObjects}
  \cup {Call(d, v) : d \in {3, 4, 6, 10, 11}, v \in NilValues}
  \cup {Call(3, v) : v \in ManyValues}
  \cup {Call(2, v) : v \in OrderObjects}
  \cup {Call(5, Map(<<KV("b", Str("t"))>>)), Call(0, Map(<<KV("u", Str("t"))>>))}

InitCodec ==
  /\ \E c \in Calls : rootDesc = c.d /\ sval = c.v
  /\ options \in {[DefaultOptions EXCEPT !.ignoreUnknownProperties = ig] :
                    ig \in BOOLEAN}
  /\ descs = Schema
  /\ xml = NoXml
  /\ calls = 0
  /\ pstate = "idle"
  /\ doc = <<>>
  /\ input = <<>>
  /\ stack = <<>>
  /\ heap = <<>>
  /\ refs = <<>>
  /\ nsScopes = NewNamespaceContext
  /\ result = Undef
  /\ error = NoError
  /\ last = [op |-> "init", name |-> ""]
  /\ px = NoParse

\* One call jsonToXml(null, null, descriptor, val) on the handler.  The
\* descriptors made up for unknown properties are dropped with the call.
Serialize ==
  /\ pstate = "idle"
  /\ calls < MaxCalls
  /\ xml' = jsonToXml(NewDocument(NewNamespaceContext, descs), 1, rootDesc, sval,
                      options)
  /\ descs' = SubSeq(xml'.descs, 1, Len(Schema))
  /\ calls' = calls + 1
  /\ last' = [op |-> "serialize", name |-> ""]
  /\ UNCHANGED <<doc, input, stack, heap, refs, nsScopes, pstate, result, error,
                 rootDesc, options, sval, px>>

\* xmlToJson(null, xml, descriptor) on the document the last call built
Parse ==
  /\ pstate = "idle"
  /\ calls >= 1
  /\ xml.err = ""
  /\ doc' = NodeTokens(xml.nodes, 1)
  /\ input' = doc'
  /\ stack' = <<Frame("", root, rootDesc, Undef, NoTag)>>
  /\ heap' = << <<>> >>
  /\ refs' = <<>>
  /\ nsScopes' = NewNamespaceContext
  /\ pstate' = "parsing"
  /\ last' = [op |-> "parse", name |-> ""]
  /\ UNCHANGED <<result, error, descs, rootDesc, options, sval, xml, calls, px>>

NextCodec ==
  \/ Serialize
  \/ Parse
  \/ OnOpenTag
  \/ OnCloseTag
  \/ OnText
  \/ OnCData
  \/ End

SpecCodec == InitCodec /\ [][NextCodec]_vars

----------------------------------------------------------------------------
(* parseXml (lines 460-531) in string mode: a third specification.  px is  *)
(* [phase, input, nodes, stack, current, hasCb, errors, queue, called]:    *)
(* where the call stands, the tokens the tokenizer has still to deliver,   *)
(* the tree built, the stack of open nodes, the current node, whether a    *)
(* callback was given, the errors the tokenizer reported, the callbacks    *)
(* process.nextTick holds, and the invocations of the callback made.       *)

MaxErrors == 2      \* errors the tokenizer reports in one call
MaxPxItems == 2     \* content items of the root element of a document

PxItems ==
  {<<TextTok("t")>>, <<TextTok(" ")>>, <<CDataTok("c")>>,
   Element("b", <<Attr("k", "1")>>, <<TextTok("t")>>)}

\* Documents, whole or cut short, with or without text before the root
PxDocs ==
  LET whole == {lead \o Element("a", <<>>, ConcatAll(items)) :
                  lead \in {<<>>, <<TextTok("t")>>},
                  items \in SeqsOf(PxItems, 0, MaxPxItems)}
  IN UNION {{SubSeq(d, 1, n) : n \in 0..Len(d)} : d \in whole}

InitParseXml ==
  /\ \E d \in PxDocs, cb \in BOOLEAN :
       px = [phase |-> "writing", input |-> d,
             nodes |-> <<XmlNode("doc", "", 0, "", 0)>>,
             stack |-> <<1>>, current |-> 1, hasCb |-> cb, errors |-> 0,
             queue |-> <<>>, called |-> <<>>]
  /\ doc = <<>>
  /\ input = <<>>
  /\ stack = <<>>
  /\ heap = <<>>
  /\ refs = <<>>
  /\ nsScopes = NewNamespaceContext
  /\ pstate = "idle"
  /\ result = Undef
  /\ error = NoError
  /\ descs = Schema
  /\ rootDesc = 0
  /\ options = DefaultOptions
  /\ sval = Undef
  /\ xml = NoXml
  /\ calls = 0
  /\ last = [op |-> "init", name |-> ""]

PxFrame ==
  UNCHANGED <<doc, input, stack, heap, refs, nsScopes, pstate, result, error,
              descs, rootDesc, options, sval, xml, calls>>

PxNext(kind) ==
  /\ px.phase = "writing"
  /\ px.input # <<>>
  /\ Head(px.input).kind = kind

\* element.attribute(node.attributes)
RECURSIVE PxAttributes(_, _, _, _)
PxAttributes(bs, node, attrs, i) ==
  IF i > Len(attrs) THEN bs
  ELSE PxAttributes(attribute(bs, node, attrs[i].name, Str(attrs[i].value)),
                    node, attrs, i + 1)

\* parser.onopentag without the assignment of line 506
PxOpenTagKeepsCurrent ==
  /\ PxNext("open")
  /\ px' = [PxAttributes(element(px, px.current, Head(px.input).name, Undef, 0),
                         Len(px.nodes) + 1, Head(px.input).attrs, 1)
            EXCEPT !.input = Tail(@),
                   !.stack = Append(@, Len(px.nodes) + 1)]
  /\ last' = [op |-> "pxopen", name |-> Head(px.input).name]
  /\ PxFrame

\* parser.onopentag (lines 499-507)
PxOpenTag ==
  /\ PxNext("open")
  /\ px' = [PxAttributes(element(px, px.current, Head(px.input).name, Undef, 0),
                         Len(px.nodes) + 1, Head(px.input).attrs, 1)
            EXCEPT !.input = Tail(@),
                   !.stack = Append(@, Len(px.nodes) + 1),
                   !.current = Len(px.nodes) + 1]
  /\ last' = [op |-> "pxopen", name |-> Head(px.input).name]
  /\ PxFrame

\* parser.onclosetag (lines 509-514); a failed assert throws out of
\* parser.write
PxCloseTag ==
  /\ PxNext("close")
  /\ IF px.stack[Len(px.stack)] = px.current
        /\ px.nodes[px.current].name = Head(px.input).name
     THEN px' = [px EXCEPT !.input = Tail(@),
                           !.stack = SubSeq(@, 1, Len(@) - 1),
                           !.current = px.stack[Len(px.stack) - 1]]
     ELSE px' = [px EXCEPT !.phase = "threw"]
  /\ last' = [op |-> "pxclose", name |-> Head(px.input).name]
  /\ PxFrame

\* parser.ontext (lines 482-489)
PxText ==
  /\ PxNext("text")
  /\ px' = [(IF px.nodes[px.current].kind = "doc"
                  \/ Trim(Head(px.input).text) = ""
             THEN px
             ELSE text(px, px.current, Str(Trim(Head(px.input).text))))
            EXCEPT !.input = Tail(@)]
  /\ last' = [op |-> "pxtext", name |-> ""]
  /\ PxFrame

\* parser.oncdata (lines 491-497)
PxCData ==
  /\ PxNext("cdata")
  /\ px' = [(IF px.nodes[px.current].kind = "doc"
                  \/ Trim(Head(px.input).text) = ""
             THEN px
             ELSE cdata(px, px.current, Str(Trim(Head(px.input).text))))
            EXCEPT !.input = Tail(@)]
  /\ last' = [op |-> "pxcdata", name |-> ""]
  /\ PxFrame

\* parser.onerror (lines 477-480).  The tokenizer reports an error while
\* it reads the text, and at its end when the root element is not closed.
PxError ==
  /\ \/ px.phase = "writing"
     \/ px.phase = "closing" /\ Len(px.stack) > 1 /\ last.op # "pxerror"
  /\ px.errors < MaxErrors
  /\ px' = [px EXCEPT !.errors = @ + 1,
                      !.queue = IF px.hasCb THEN Append(@, "error") ELSE @]
  /\ last' = [op |-> "pxerror", name |-> ""]
  /\ PxFrame

\* parser.write(xml).close() (line 526), once the text is read: close
\* throws the error the tokenizer holds, if any, out of parseXml
PxClose ==
  /\ px.phase = "writing"
  /\ px.input = <<>>
  /\ px' = [px EXCEPT !.phase = IF px.errors > 0 THEN "threw" ELSE "closing"]
  /\ last' = [op |-> "pxcloseparser", name |-> ""]
  /\ PxFrame

\* parser.onend (lines 516-523), then return root (line 530)
PxEnd ==
  /\ px.phase = "closing"
  /\ px' = [px EXCEPT !.phase = "returned",
                      !.queue = IF px.hasCb THEN Append(@, "end") ELSE @]
  /\ last' = [op |-> "pxend", name |-> ""]
  /\ PxFrame

\* process.nextTick runs a callback it holds, once the call is over: cb()
\* for an error (line 479), cb(null, root) for the end (line 520)
PxTick ==
  /\ px.phase \in {"returned", "threw"}
  /\ px.queue # <<>>
  /\ px' = [px EXCEPT !.queue = Tail(@),
                      !.called = Append(@, [from |-> Head(px.queue),
                                            phase |-> px.phase])]
  /\ last' = [op |-> "pxtick", name |-> ""]
  /\ PxFrame

NextParseXml ==
  \/ PxOpenTag
  \/ PxCloseTag
  \/ PxText
  \/ PxCData
  \/ PxError
  \/ PxClose
  \/ PxEnd
  \/ PxTick

SpecParseXml == InitParseXml /\ [][NextParseXml]_vars

----------------------------------------------------------------------------
(* Claims about xmlToJson *)

\* What the rule of array promotion asks a parent to hold under name nm
\* after the children kids closed into it.
PromotionExpected(kids, nm) ==
  LET cs == SelectSeq(kids, LAMBDA c : c.name = nm)
  IN IF Len(cs) = 1
     THEN IF cs[1].many THEN Arr(<<cs[1].value>>) ELSE cs[1].value
     ELSE Arr([i \in 1..Len(cs) |-> cs[i].value])

\* C1: for every parent and every name under which n >= 1 children have
\* been closed into it, the parent's object holds under that name the
\* child's value (n = 1, no isMany descriptor), a one-element array (n = 1,
\* isMany descriptor) or the array of the n values in document order.
C1_ArrayPromotion ==
  \A f \in 1..Len(stack) : \A c \in 1..Len(stack[f].kids) :
    Field(heap, stack[f].object, stack[f].kids[c].name)
      = PromotionExpected(stack[f].kids, stack[f].kids[c].name)

\* The same rule for the parents whose object is a property map.
C1_PromotionInMaps ==
  \A f \in 1..Len(stack) : \A c \in 1..Len(stack[f].kids) :
    stack[f].object.t = "obj" =>
      Field(heap, stack[f].object, stack[f].kids[c].name)
        = PromotionExpected(stack[f].kids, stack[f].kids[c].name)

\* A child closed into a parent that already holds text: the close handler
\* has raised a TypeError and the child's value is lost.
C1_TextParentThrows ==
  /\ pstate = "threw"
  /\ error.kind = "TypeError"
  /\ Top(stack).object.t = "str"
  /\ Len(Top(stack).kids) = 1

\* Three children of one name promoted and pushed in document order.
C1_ThreeInOrder ==
  \E f \in 1..Len(stack) :
    /\ Len(stack[f].kids) = 3
    /\ \A c \in 1..3 : stack[f].kids[c].name = "x"
    /\ stack[f].kids[1].value # stack[f].kids[2].value
    /\ Field(heap, stack[f].object, "x")
         = Arr(<<stack[f].kids[1].value, stack[f].kids[2].value,
                 stack[f].kids[3].value>>)

\* The attribute at position i of a tag is xsi:nil (in the scopes ns).
IsXsiNil(ns, tag, i) ==
  /\ ~IsXmlnsAttr(tag.attrs[i].name)
  /\ QNameParse(tag.attrs[i].name).name = "nil"
  /\ getNamespaceURI(ns, QNameParse(tag.attrs[i].name).prefix) = XSI

HasNilTrue(ns, tag) ==
  \E i \in 1..Len(tag.attrs) : IsXsiNil(ns, tag, i) /\ tag.attrs[i].value = "true"

\* The tag carries an attribute that is neither a namespace declaration
\* nor xsi:nil.
HasOtherAttribute(ns, tag) ==
  \E i \in 1..Len(tag.attrs) :
    ~IsXmlnsAttr(tag.attrs[i].name) /\ ~IsXsiNil(ns, tag, i)

JustOpened == last.op = "open"

\* C2: an element whose open tag carries xsi:nil="true" is parsed to null,
\* whatever other attributes the tag carries and in whatever order.
C2_NilIsNull ==
  (JustOpened /\ HasNilTrue(nsScopes, Top(stack).tag)) =>
    Top(stack).object = Null

\* C2, amended: such an element is parsed to null when its tag carries no
\* attribute besides xsi:nil and namespace declarations; when it carries
\* another attribute it is parsed to an object holding the attribute map.
\* In both cases no entry is recorded for the nil attribute.
C2_NilIsNullWithoutOtherAttributes ==
  (JustOpened /\ HasNilTrue(nsScopes, Top(stack).tag)) =>
    IF HasOtherAttribute(nsScopes, Top(stack).tag)
    THEN /\ Top(stack).object.t = "obj"
         /\ Keys(heap[Top(stack).object.n]) = <<attributesKey>>
         /\ ~HasKey(Field(heap, Top(stack).object, attributesKey).items, "nil")
    ELSE Top(stack).object = Null

\* xsi:nil="true" among namespace declarations, not in first position.
C2_NilAmongDeclarations ==
  /\ JustOpened
  /\ HasNilTrue(nsScopes, Top(stack).tag)
  /\ Len(Top(stack).tag.attrs) >= 2
  /\ ~IsXsiNil(nsScopes, Top(stack).tag, 1)
  /\ Top(stack).object = Null

Finished == last.op = "end"

\* C3: when xmlToJson finishes a document, a truthy Envelope whose Body and
\* Body.Fault are neither undefined nor null makes the call throw an Error
\* with the composed fault message and the root object; otherwise a truthy
\* Envelope is returned; otherwise the root object is returned.
C3_EndOfDocument ==
  Finished =>
    LET envelope == Field(heap, root, "Envelope")
        body == Field(heap, envelope, "Body")
        fault == Field(heap, body, "Fault")
        faulty == Truthy(envelope) /\ ~IsNullish(body) /\ ~IsNullish(fault)
        threw == /\ pstate = "threw"
                 /\ error = ErrorOf("Error", FaultMessage(heap, fault), root)
                 /\ result = Undef
        unwrapped == pstate = "returned" /\ error = NoError /\ result = envelope
        whole == pstate = "returned" /\ error = NoError /\ result = root
    IN /\ faulty => threw
       /\ (~faulty /\ Truthy(envelope)) => unwrapped
       /\ ~Truthy(envelope) => whole
       /\ (threw /\ ~unwrapped /\ ~whole) \/ (~threw /\ unwrapped /\ ~whole)
            \/ (~threw /\ ~unwrapped /\ whole)

\* A fault was thrown, an envelope was unwrapped, a root was returned.
C3_FaultThrown ==
  Finished /\ pstate = "threw" /\ error.root = root
    /\ ~IsNullish(Field(heap, Field(heap, Field(heap, root, "Envelope"), "Body"), "Fault"))

\* The SOAP 1.1 fields of the fault of the document.
FaultOfRoot == Field(heap, Field(heap, Field(heap, root, "Envelope"), "Body"), "Fault")
FaultPart(name) ==
  JsOr(Field(heap, Field(heap, FaultOfRoot, name), valueKey),
       Field(heap, FaultOfRoot, name))
IsPlainString(v) == v.t = "str" /\ v.s # ""

\* C4: for a fault whose faultcode is a non-empty string c the message is
\* "faultcode: c", then " faultstring: s" and " faultactor: a" exactly when
\* those are non-empty strings, then " detail: d" when detail is not null,
\* d verbatim when a string and a JSON dump otherwise.
C4_Soap11Message ==
  (Finished /\ pstate = "threw" /\ IsPlainString(FaultPart("faultcode"))) =>
    error.message =
      "faultcode: " \o FaultPart("faultcode").s
        \o (IF IsPlainString(FaultPart("faultstring"))
            THEN " faultstring: " \o FaultPart("faultstring").s ELSE "")
        \o (IF IsPlainString(FaultPart("faultactor"))
            THEN " faultactor: " \o FaultPart("faultactor").s ELSE "")
        \o (IF IsNullish(FaultPart("detail")) THEN ""
            ELSE IF FaultPart("detail").t = "str"
            THEN " detail: " \o FaultPart("detail").s
            ELSE " detail: " \o JsonStringify(heap, FaultPart("detail")))

\* A fault with faultcode, faultstring, faultactor and a structured detail.
C4_AllParts ==
  /\ Finished
  /\ pstate = "threw"
  /\ IsPlainString(FaultPart("faultcode"))
  /\ IsPlainString(FaultPart("faultstring"))
  /\ IsPlainString(FaultPart("faultactor"))
  /\ FaultPart("detail").t = "obj"

\* A field of the fault is present when it has a value: an empty or nil
\* element leaves none
Present(v) == ~IsNullish(v) /\ v # Str("")

\* " Label: <dump>" for a field that is present
Part12(label, v) ==
  IF Present(v) THEN " " \o label \o ": " \o JsonStringify(heap, v) ELSE ""

\* The SOAP 1.1 message for a faultcode that need not be a string
Message11 ==
  (IF FaultPart("faultcode").t = "str"
   THEN "faultcode: " \o FaultPart("faultcode").s ELSE " ")
    \o (IF IsPlainString(FaultPart("faultstring"))
        THEN " faultstring: " \o FaultPart("faultstring").s ELSE "")
    \o (IF IsPlainString(FaultPart("faultactor"))
        THEN " faultactor: " \o FaultPart("faultactor").s ELSE "")
    \o (IF IsNullish(FaultPart("detail")) THEN ""
        ELSE IF FaultPart("detail").t = "str"
        THEN " detail: " \o FaultPart("detail").s
        ELSE " detail: " \o JsonStringify(heap, FaultPart("detail")))

\* The SOAP 1.2 message: the dump of Code, then the parts in their order
Message12 ==
  " Code: " \o JsonStringify(heap, Field(heap, FaultOfRoot, "Code"))
    \o Part12("Value", FaultPart("Value"))
    \o Part12("Subcode", FaultPart("Subcode"))
    \o Part12("Reason", Field(heap, FaultOfRoot, "Reason"))
    \o Part12("Node", FaultPart("Node"))
    \o Part12("Role", FaultPart("Role"))
    \o (IF IsNullish(FaultPart("Detail")) THEN ""
        ELSE IF FaultPart("Detail").t = "str"
        THEN " Detail: " \o FaultPart("Detail").s
        ELSE " Detail: " \o JsonStringify(heap, FaultPart("Detail")))

\* C15: the message of a fault is chosen by priority: with a faultcode
\* (direct or under the value-key) it is the SOAP 1.1 message, a Code field
\* or not; without a faultcode and with a Code it is the SOAP 1.2 message,
\* "Code: <dump>" followed by the Value, Subcode, Reason, Node, Role and
\* Detail parts that are present, in that order; with neither it is the
\* generic message.  The message is never null.
C15_FaultPriority ==
  (Finished /\ pstate = "threw") =>
    /\ error.kind = "Error"
    /\ error.message # ""
    /\ error.message =
         IF Present(FaultPart("faultcode")) THEN Message11
         ELSE IF Present(Field(heap, FaultOfRoot, "Code")) THEN Message12
         ELSE "Error occurred processing Fault response."

\* A fault with a faultcode and a Code: the SOAP 1.1 message
C15_BothShapes ==
  /\ Finished
  /\ pstate = "threw"
  /\ FaultPart("faultcode") = Str("faultcode")
  /\ Field(heap, FaultOfRoot, "Code").t = "obj"
  /\ error.message = "faultcode: faultcode"

\* A SOAP 1.2 fault with every part
C15_AllParts12 ==
  /\ Finished
  /\ pstate = "threw"
  /\ error.message
       = " Code: {\"Value\":\"c\"} Value: \"Value\" Subcode: \"Subcode\""
           \o " Reason: \"Reason\" Node: \"Node\" Role: \"Role\" Detail: Detail"

\* <a id="1"><v>5</v></a><b href="#1"/>
MultirefDoc ==
  Element("a", <<Attr("id", "1")>>, Element("v", <<>>, <<TextTok("5")>>))
    \o Element("b", <<Attr("href", "#1")>>, <<>>)

MultirefParsed == doc = MultirefDoc /\ rootDesc = 0 /\ pstate = "returned"

\* C5: parsing <a id="1"><v>5</v></a><b href="#1"/> yields b = {v: 5}.
C5_MultirefEquals ==
  MultirefParsed =>
    Resolve(heap, Field(heap, result, "b")) \in
      {Map(<<KV("v", Str("5"))>>), Map(<<KV("v", Num(5))>>)}

\* C5, amended: parsing that document yields a b that holds every own
\* property of a's object, a's attribute map in place of its own included:
\* b = {$attributes: {id: "1"}, v: "5"}, equal to a.
C5_MultirefCopies ==
  MultirefParsed =>
    /\ Resolve(heap, Field(heap, result, "b"))
         = Map(<<KV(attributesKey, Map(<<KV("id", Str("1"))>>)),
                 KV("v", Str("5"))>>)
    /\ Resolve(heap, Field(heap, result, "b"))
         = Resolve(heap, Field(heap, result, "a"))
    /\ Field(heap, result, "b") # Field(heap, result, "a")

C5_MultirefResolved == MultirefParsed /\ last.op = "end"

\* A close tag pops a frame whose object xsi:nil made null
NilChildCloses ==
  /\ pstate = "parsing"
  /\ last'.op = "close"
  /\ Len(stack) >= 2
  /\ Top(stack).object = Null

\* The parent of the frame on top, before and after the close tag
ParentBefore == Resolve(heap, stack[Len(stack) - 1].object)
ParentAfter == Resolve(heap', stack'[Len(stack')].object)

\* C14: a close tag that pops a frame whose object xsi:nil made null
\* leaves the parent's object as it was: no key is added for the element
\* and no value or array under its name is changed.
C14_NilChildLeavesParent ==
  [][NilChildCloses => pstate' = "parsing" /\ ParentAfter = ParentBefore]_vars

\* What the close tag of an element nm whose object is null makes of a
\* parent that is a property map or unset
WithNull(parent, nm, many) ==
  LET es == IF parent.t = "map" THEN parent.items ELSE <<>>
      old == GetKey(es, nm)
  IN Map(SetKey(es, nm,
                IF HasKey(es, nm)
                THEN IF old.t = "arr" THEN Arr(Append(old.items, Null))
                     ELSE Arr(<<old, Null>>)
                ELSE IF many THEN Arr(<<Null>>) ELSE Null))

\* C14, amended: such a close tag merges the null into the parent like any
\* other value: a parent that is a property map or unset holds null under
\* the element's name, in a one-element array for a repeatable element,
\* appended or promoted to an array when the name is there already; a
\* parent that is itself null is left as it was, and so is one that holds
\* a date; a parent that holds text, a number or a boolean makes the close
\* tag throw a TypeError.
C14_NilChildMergedAsNull ==
  [][NilChildCloses =>
       CASE ParentBefore.t \in {"map", "undef"} ->
              /\ pstate' = "parsing"
              /\ ParentAfter
                   = WithNull(ParentBefore, last'.name,
                              Top(stack).descriptor # 0
                                /\ descs[Top(stack).descriptor].isMany)
         [] ParentBefore.t \in {"null", "date"} ->
              pstate' = "parsing" /\ ParentAfter = ParentBefore
         [] OTHER -> pstate' = "threw" /\ error'.kind = "TypeError"]_vars

\* A nil x closed into a parent that held one x: the parent holds the two
C14_NullPromoted ==
  /\ last.op = "close"
  /\ pstate = "parsing"
  /\ Len(Top(stack).kids) = 2
  /\ Top(stack).kids[2].value = Null
  /\ Top(stack).kids[1].value = Str("1")
  /\ Field(heap, Top(stack).object, "x") = Arr(<<Str("1"), Null>>)

\* A chunk of text or CDATA that is not blank is handled
ChunkHandled ==
  /\ pstate = "parsing"
  /\ last'.op \in {"text", "cdata"}
  /\ Trim(Head(input).text) # ""

\* The chunk as the handler hands it on: text coerced, CDATA as it is
Chunk ==
  IF Head(input).kind = "text"
  THEN parseValue(descs, Trim(Head(input).text), Top(stack).descriptor)
  ELSE Str(Trim(Head(input).text))

\* old and the chunk concatenated as strings, the chunk in its coerced or
\* in its written form
Concatenated(old) ==
  {Str(JsToString(old) \o JsToString(Chunk)),
   Str(JsToString(old) \o Trim(Head(input).text))}

\* C19: a chunk of text that is not blank leaves the frame's object as
\* follows: unset, it becomes the coerced chunk; a property map, its
\* value-key entry becomes the chunk or, when there is one already, the
\* entry and the chunk concatenated; a scalar (text, or a number, boolean
\* or date the descriptor's type made), it becomes the string
\* concatenation of the value and the chunk.
C19_ChunksConcatenated ==
  [][ChunkHandled =>
       LET before == Top(stack).object
           after == Top(stack').object
       IN CASE before.t = "undef" -> after = Chunk
            [] before.t = "obj" ->
                 /\ after = before
                 /\ GetKey(heap'[before.n], valueKey) \in
                      (IF GetKey(heap[before.n], valueKey).t = "undef"
                       THEN {Chunk}
                       ELSE Concatenated(GetKey(heap[before.n], valueKey)))
            [] before.t \in {"str", "num", "bool", "date"} ->
                 after \in Concatenated(before)
            [] OTHER -> TRUE]_vars

\* <x>1<!-- -->2</x> for a number x: the object is 3
C19_ChunksAdded ==
  /\ pstate = "parsing"
  /\ last.op = "text"
  /\ Top(stack).tag.name = "x"
  /\ Top(stack).object = Num(3)

\* An open tag was handled: the frame on top is the element's
ElementOpened == pstate = "parsing" /\ last.op = "open"

\* The attributes of the open tag that are neither namespace declarations
\* nor in the XML-Schema-Instance namespace and that the element's matching
\* descriptor describes
DescribedAttributes ==
  {a \in 1..Len(Top(stack).tag.attrs) :
     LET q == QNameParse(Top(stack).tag.attrs[a].name)
     IN /\ ~IsXmlnsAttr(Top(stack).tag.attrs[a].name)
        /\ getNamespaceURI(nsScopes, q.prefix) # XSI
        /\ findAttribute(descs, Top(stack).descriptor, q.name) # 0}

\* C20: an attribute of an open tag that is neither a namespace
\* declaration nor an xsi attribute and that the element's matching
\* descriptor describes is stored in the attribute map, under its local
\* name, as the text coerced with the attribute's descriptor.
C20_AttributeCoerced ==
  ElementOpened =>
    \A a \in DescribedAttributes :
      LET att == Top(stack).tag.attrs[a]
          q == QNameParse(att.name)
      IN Field(heap, Field(heap, Top(stack).object, attributesKey), q.name)
           = parseValue(descs, att.value,
                        findAttribute(descs, Top(stack).descriptor, q.name))

\* <r k="1"> for an r whose attribute k is a number: "1" is stored
C20_RawTextStored ==
  /\ ElementOpened
  /\ Top(stack).name = "r"
  /\ DescribedAttributes # {}
  /\ Field(heap, Field(heap, Top(stack).object, attributesKey), "k") = Str("1")

\* A close tag pops the frame of an element that xsi:nil did not null
ChildCloses ==
  /\ pstate = "parsing"
  /\ last'.op = "close"
  /\ Len(stack) >= 2
  /\ Top(stack).object # Null

\* C21: whatever text chunks and child elements an element holds, and in
\* whatever order, the close tag of each child that is not nil raises no
\* error and leaves the child in the parent's object under its local name.
C21_ChildKept ==
  [][ChildCloses =>
       /\ pstate' = "parsing"
       /\ HasKey(Props(heap', Top(stack').object), last'.name)]_vars

\* <r>t<x>1</x>...: the text came first, and the close tag of x threw
C21_TextThenChild ==
  /\ pstate = "threw"
  /\ last.op = "close"
  /\ error.kind = "TypeError"
  /\ Top(stack).tag.name = "r"
  /\ Top(stack).object = Str("t")
  /\ Top(stack).kids = <<[name |-> "x", value |-> Str("1"), many |-> FALSE]>>
  /\ ~HasKey(Props(heap, Top(stack).object), "x")

\* The tokens handled so far, and the elements among them that are open
Handled == SubSeq(doc, 1, Len(doc) - Len(input))

OpenElements ==
  Cardinality({i \in 1..Len(Handled) : Handled[i].kind = "open"})
    - Cardinality({i \in 1..Len(Handled) : Handled[i].kind = "close"})

\* C23: in xmlToJson the frames and the namespace scopes move together:
\* after every event the frames above the root frame are as many as the
\* open elements and as many as the scopes pushed and not yet popped; the
\* root frame stays at the bottom; after the last close tag of a document
\* the stack holds the root frame alone and the scopes are as deep as on
\* entry.
C23_FramesAndScopes ==
  /\ Len(stack) - 1 = OpenElements
  /\ Len(nsScopes) - Len(NewNamespaceContext) = OpenElements
  /\ Len(stack) >= 1
  /\ stack[1].name = "" /\ stack[1].tag = NoTag
  /\ input = <<>> => Len(stack) = 1 /\ Len(nsScopes) = Len(NewNamespaceContext)

\* Two elements are open, and then the document is over
C23_TwoOpen ==
  /\ pstate = "parsing"
  /\ last.op = "open"
  /\ OpenElements = 2
  /\ Len(stack) = 3
  /\ Len(nsScopes) = Len(NewNamespaceContext) + 2

C23_AllClosed ==
  /\ last.op = "close"
  /\ input = <<>>
  /\ Len(doc) >= 4
  /\ Len(stack) = 1
  /\ Len(nsScopes) = Len(NewNamespaceContext)

\* The frame f of the stack stk is that of an element with xsi:nil="true"
\* and no other attribute; ns are the scopes, one for each frame
NilOnly(ns, stk, f) ==
  /\ f \in 2..Len(stk)
  /\ HasNilTrue(SubSeq(ns, 1, f), stk[f].tag)
  /\ ~HasOtherAttribute(SubSeq(ns, 1, f), stk[f].tag)

Sites(rs) ==
  UNION {{<<i, k>> : k \in 1..Len(rs[i].hrefs)} : i \in 1..Len(rs)}

\* The placeholder of a site is the object of a frame of the stack stk: its
\* element is still open
IsOpenIn(stk, o) == \E f \in 1..Len(stk) : stk[f].object = o

\* What a shallow copy of the properties from onto the properties own
\* leaves: own's keys in place with the copied values, then the new keys
ShallowCopy(own, from) ==
  [i \in 1..Len(own) |->
     IF HasKey(from, own[i].k) THEN KV(own[i].k, GetKey(from, own[i].k))
     ELSE own[i]]
    \o SelectSeq(from, LAMBDA e : ~HasKey(own, e.k))

\* One step of xmlToJson as the rule of multiref merging allows it
MergeStep ==
  /\ (pstate = "parsing" /\ last'.op # "end") =>
       \A s \in Sites(refs) :
         LET o == refs[s[1]].hrefs[s[2]].object
         IN ~IsOpenIn(stack', o) => heap'[o.n] = heap[o.n]
  /\ (pstate = "parsing" /\ last'.op = "end") =>
       /\ Sites(refs) # {} => error' = NoError /\ pstate' = "returned"
       /\ \A s \in Sites(refs) :
            LET o == refs[s[1]].hrefs[s[2]].object
                resolved == refs[s[1]].object
            IN heap'[o.n] = IF resolved.t = "obj"
                            THEN ShallowCopy(heap[o.n], heap[resolved.n])
                            ELSE heap[o.n]

\* C13: no placeholder of a multiref merge site receives a property of a
\* referenced object while tokens are handled; at the end of the document
\* each site receives one shallow copy of the own properties of the object
\* its id resolved to, whether the id came before or after the href; a
\* site whose id never came keeps its placeholder and raises no error.
C13_MergeAtEnd == [][MergeStep]_vars

\* The href came first and its id later; and an href whose id never came
C13_HrefBeforeId ==
  /\ doc = Element("b", <<Attr("href", "#1")>>, <<>>)
             \o Element("a", <<Attr("id", "1")>>,
                         Element("v", <<>>, <<TextTok("5")>>))
  /\ last.op = "end"
  /\ pstate = "returned"
  /\ Resolve(heap, Field(heap, result, "b"))
       = Map(<<KV(attributesKey, Map(<<KV("id", Str("1"))>>)),
               KV("v", Str("5"))>>)

C13_IdNeverCame ==
  /\ doc = Element("b", <<Attr("href", "#1")>>, <<>>)
  /\ last.op = "end"
  /\ Resolve(heap, Field(heap, result, "b"))
       = Map(<<KV(attributesKey, Map(<<KV("href", Str("#1"))>>))>>)

----------------------------------------------------------------------------
(* Claims about jsonToXml *)

Serialized == calls >= 1

\* The nodes of the document the last call built
ElementNodes == {i \in 1..Len(xml.nodes) : xml.nodes[i].kind = "element"}
ContentNodes ==
  {i \in 1..Len(xml.nodes) : xml.nodes[i].kind \in {"text", "cdata", "raw"}}
NodeHasAttr(i, name) ==
  \E a \in 1..Len(xml.nodes[i].attrs) : xml.nodes[i].attrs[a].name = name

\* C6: serialization leaves the elements list and the attributes list of
\* every descriptor as they were before the call, whatever the value, a
\* value whose attribute map names a subtype of the inheritance table
\* included.
C6_DescriptorsUnmodified ==
  \A i \in 1..Len(Schema) :
    /\ descs[i].elements = Schema[i].elements
    /\ descs[i].attributes = Schema[i].attributes

\* Two calls with a value that names the subtype Sub: the element r has
\* grown by the subtype's element at each call.
C6_GrownTwice ==
  /\ calls = 2
  /\ Len(descs[2].elements) = Len(Schema[2].elements) + 2

\* The working value of line 72-81: the entry under the value-key when the
\* value has one
WorkingValue(v) ==
  IF v.t = "map" /\ GetKey(v.items, valueKey).t # "undef"
  THEN GetKey(v.items, valueKey) ELSE v

NilCall ==
  /\ Serialized
  /\ rootDesc # 0
  /\ Schema[rootDesc].kind = "element"
  /\ IsNullish(WorkingValue(sval))

\* C8: for an element descriptor and a working value that is null or
\* absent the call builds exactly one element, without text and without
\* child elements, that carries xsi:nil = true exactly when the descriptor
\* is nillable.
C8_NilElement ==
  NilCall =>
    /\ xml.err = ""
    /\ Cardinality(ElementNodes) = 1
    /\ ContentNodes = {}
    /\ \A i \in ElementNodes :
         IF Schema[rootDesc].isNillable
         THEN AttrValue(xml.nodes[i].attrs, "xsi:nil") = Str("true")
         ELSE ~NodeHasAttr(i, "xsi:nil")

\* The same for every call but the one with an absent value for an element
\* of type dateTime or time.
C8_NilElementUnlessAbsentDate ==
  (NilCall /\ ~(Schema[rootDesc].typeName \in {"dateTime", "time"}
                /\ WorkingValue(sval).t = "undef")) =>
    /\ xml.err = ""
    /\ Cardinality(ElementNodes) = 1
    /\ ContentNodes = {}
    /\ \A i \in ElementNodes :
         IF Schema[rootDesc].isNillable
         THEN AttrValue(xml.nodes[i].attrs, "xsi:nil") = Str("true")
         ELSE ~NodeHasAttr(i, "xsi:nil")

\* An absent value for the nillable dateTime element w: the call throws
\* before an element is made.
C8_AbsentDateThrows ==
  /\ NilCall
  /\ rootDesc = 10
  /\ sval = Undef
  /\ xml.err = "RangeError"
  /\ ElementNodes = {}

\* The elements above node i, the nearest first
RECURSIVE AncestorsOf(_)
AncestorsOf(i) ==
  IF xml.nodes[i].parent = 0 THEN {}
  ELSE {xml.nodes[i].parent} \cup AncestorsOf(xml.nodes[i].parent)

\* The qualified elements of the document, and those of the namespace u
IsQualifiedNode(i) ==
  /\ xml.nodes[i].kind = "element"
  /\ xml.nodes[i].desc # 0
  /\ xml.descs[xml.nodes[i].desc].form = "qualified"
QualifiedIn(u) ==
  {i \in 1..Len(xml.nodes) :
     IsQualifiedNode(i) /\ xml.descs[xml.nodes[i].desc].nsURI = u}
PrefixOfNode(i) == QNameParse(xml.nodes[i].name).prefix

\* The xmlns attributes of the document that declare u: <<node, attribute>>
DeclarationsOf(u) ==
  UNION {{<<i, a>> : a \in {b \in 1..Len(xml.nodes[i].attrs) :
                                /\ IsXmlnsAttr(xml.nodes[i].attrs[b].name)
                                /\ xml.nodes[i].attrs[b].value = u}} :
           i \in 1..Len(xml.nodes)}

UsedURIs == {"urn:a", "urn:t"}

HasPrefixedAttribute(i) ==
  \E a \in 1..Len(xml.nodes[i].attrs) :
    /\ ~IsXmlnsAttr(xml.nodes[i].attrs[a].name)
    /\ QNameParse(xml.nodes[i].attrs[a].name).prefix # ""

RValue == IF rootDesc = 1 THEN GetKey(sval.items, "r") ELSE sval

RCall ==
  /\ Serialized
  /\ rootDesc \in {1, 2}
  /\ RValue.t = "map"
  /\ ~(GetKey(RValue.items, attributesKey).t = "map"
       /\ HasKey(GetKey(RValue.items, attributesKey).items, xsiTypeKey))

\* The names r declares, and the properties of v it does not declare
DeclaredNames ==
  {Schema[Schema[2].elements[i]].name : i \in 1..Len(Schema[2].elements)}
    \cup {Schema[Schema[2].attributes[i]].name :
            i \in 1..Len(Schema[2].attributes)}

UnknownKeys(v) ==
  {v.items[i].k : i \in 1..Len(v.items)} \ (DeclaredNames \cup {attributesKey})

\* v without the properties and attributes r does not declare
Known(v) ==
  Map([i \in 1..Len(SelectSeq(v.items,
                               LAMBDA e : e.k \in DeclaredNames
                                             \cup {attributesKey})) |->
         LET e == SelectSeq(v.items,
                            LAMBDA f : f.k \in DeclaredNames
                                          \cup {attributesKey})[i]
         IN IF e.k = attributesKey /\ e.v.t = "map"
            THEN KV(e.k, Map(SelectSeq(e.v.items,
                                       LAMBDA f : f.k \in DeclaredNames)))
            ELSE e])

\* The child elements of r that are named nm
ChildrenNamed(nm) ==
  {i \in ElementNodes : xml.nodes[i].parent = 2 /\ xml.nodes[i].name = nm}

\* The document of the call on the value without its unknown properties,
\* under the other setting of ignoreUnknownProperties
KnownDocument ==
  jsonToXml(NewDocument(NewNamespaceContext, Schema), 1, rootDesc,
            IF rootDesc = 1 THEN Map(<<KV("r", Known(RValue))>>)
            ELSE Known(RValue),
            [options EXCEPT !.ignoreUnknownProperties = ~@]).nodes

\* The tokens of the document below node i without the children of r named
\* in drop and without the attributes of r that r does not declare
RECURSIVE DeclaredTokens(_, _, _)
DeclaredTokens(nodes, i, drop) ==
  LET kids == SelectSeq([j \in 1..Len(nodes) |-> j],
                        LAMBDA j : /\ nodes[j].parent = i
                                   /\ ~(i = 2 /\ nodes[j].kind = "element"
                                              /\ nodes[j].name \in drop))
      below == ConcatAll([k \in 1..Len(kids) |->
                            DeclaredTokens(nodes, kids[k], drop)])
  IN CASE nodes[i].kind = "element" ->
            <<OpenTok(nodes[i].name,
                      IF i = 2
                      THEN SelectSeq(nodes[i].attrs,
                                     LAMBDA a : a.name \in DeclaredNames)
                      ELSE nodes[i].attrs)>>
              \o below \o <<CloseTok(nodes[i].name)>>
       [] nodes[i].kind = "text" -> <<TextTok(nodes[i].text)>>
       [] nodes[i].kind = "cdata" -> <<CDataTok(nodes[i].text)>>
       [] OTHER -> below

\* C7: a property of the object that is neither a declared element nor a
\* declared attribute (nor the attributes-key) becomes, with
\* ignoreUnknownProperties false, elements of the bare local name, of
\* unqualified form, one for each entry when the value is an array and one
\* otherwise; with ignoreUnknownProperties true it becomes no element and
\* no attribute.  What the declared properties become is the same under
\* both settings.
C7_UnknownProperties ==
  RCall =>
    /\ \A p \in UnknownKeys(RValue) :
         LET v == GetKey(RValue.items, p)
             nm == QNameParse(p).name
         IN IF options.ignoreUnknownProperties
            THEN ChildrenNamed(nm) = {} /\ ~NodeHasAttr(2, nm)
            ELSE /\ Cardinality(ChildrenNamed(nm))
                      = IF v.t = "arr" THEN Len(v.items) ELSE 1
                 /\ \A i \in ChildrenNamed(nm) :
                      /\ xml.descs[xml.nodes[i].desc].form = "unqualified"
                      /\ xml.descs[xml.nodes[i].desc].isMany = (v.t = "arr")
                      /\ \A a \in 1..Len(xml.nodes[i].attrs) :
                           ~IsXmlnsAttr(xml.nodes[i].attrs[a].name)
    /\ DeclaredTokens(xml.nodes, 1,
                      {QNameParse(p).name : p \in UnknownKeys(RValue)})
         = DeclaredTokens(KnownDocument, 1, {})

\* An unknown property with an array of two entries beside a declared one,
\* serialized with ignoreUnknownProperties false; and an unknown property
\* dropped with ignoreUnknownProperties true
C7_UnknownArray ==
  /\ RCall
  /\ ~options.ignoreUnknownProperties
  /\ Cardinality(ChildrenNamed("u")) = 2
  /\ xml.err = ""

C7_UnknownDropped ==
  /\ RCall
  /\ options.ignoreUnknownProperties
  /\ UnknownKeys(RValue) # {}
  /\ \E p \in DeclaredNames : HasKey(RValue.items, p)

\* A call for the repeatable element x with an array
ManyCall == Serialized /\ rootDesc = 3 /\ sval.t = "arr"

\* The elements right below the document, in document order
TopElements ==
  SelectSeq([i \in 1..Len(xml.nodes) |-> i],
            LAMBDA i : xml.nodes[i].kind = "element" /\ xml.nodes[i].parent = 1)

\* The document of the call for the one entry v
EntryDocument(v) ==
  jsonToXml(NewDocument(NewNamespaceContext, Schema), 1, rootDesc, v, options)

DeclaredURIs == UsedURIs \cup {XSI}

\* The elements above node i that carry an xmlns declaration of u
DeclaredAbove(i, u) ==
  {j \in AncestorsOf(i) : \E d \in DeclarationsOf(u) : d[1] = j}

\* The prefix an xmlns attribute name declares
DeclaredPrefix(d) == QNameParse(xml.nodes[d[1]].attrs[d[2]].name).name

\* C17: a qualified element whose namespace URI an enclosing element has
\* declared carries no xmlns declaration of that URI and is written with
\* the prefix declared there; an element carries an xmlns declaration only
\* of a URI that no enclosing element has declared.
C17_DeclaredOnce ==
  (Serialized /\ xml.err = "") =>
    /\ \A u \in UsedURIs : \A i \in QualifiedIn(u) :
         DeclaredAbove(i, u) # {} =>
           /\ \A d \in DeclarationsOf(u) : d[1] # i
           /\ \E d \in DeclarationsOf(u) :
                d[1] \in DeclaredAbove(i, u) /\ DeclaredPrefix(d) = PrefixOfNode(i)
    /\ \A u \in DeclaredURIs : \A d \in DeclarationsOf(u) :
         DeclaredAbove(d[1], u) = {}

\* p:b in p:c with an xsi-type entry of the namespace of both: b declares
\* the namespace again
C17_TypeDeclaresAgain ==
  /\ Serialized
  /\ xml.err = ""
  /\ \E i \in QualifiedIn("urn:a") :
       /\ DeclaredAbove(i, "urn:a") # {}
       /\ NodeHasAttr(i, "xsi:type")
       /\ \E d \in DeclarationsOf("urn:a") : d[1] = i

C18_RawAndBack ==
  /\ Serialized
  /\ xml.err = ""
  /\ \E i \in ContentNodes : xml.nodes[i].kind = "raw"
  /\ Len(xml.ns) = Len(NewNamespaceContext)

\* The xsi-type-key entry of the value of the call
XsiTypeOfCall ==
  XsiTypeOf(GetKey(GetKey(sval.items, attributesKey).items, xsiTypeKey))

\* A call for the element r with an xsi-type-key entry that names a type
\* no schema has: the namespace is unknown, or it has no type of the name
AbsentTypeCall ==
  /\ Serialized
  /\ rootDesc = 2
  /\ sval.t = "map"
  /\ GetKey(sval.items, attributesKey).t = "map"
  /\ HasKey(GetKey(sval.items, attributesKey).items, xsiTypeKey)
  /\ \A i \in 1..Len(Schemas) :
       \/ Schemas[i].nsURI # XsiTypeOfCall.nsURI
       \/ Schemas[i].name # XsiTypeOfCall.qname.name

\* The elements below the element r, in document order
ChildrenOfTop ==
  SelectSeq([i \in 1..Len(xml.nodes) |-> i],
            LAMBDA i : /\ xml.nodes[i].kind = "element"
                       /\ xml.nodes[i].parent = TopElements[1])

\* C22: an xsi-type-key entry that names a type absent from the schemas is
\* not fatal: the call raises nothing, the properties of the object are
\* mapped with the declared descriptor, and the xsi:type attribute is
\* written.
C22_AbsentTypeNotFatal ==
  AbsentTypeCall =>
    /\ xml.err = ""
    /\ Len(TopElements) = 1
    /\ xml.nodes[TopElements[1]].desc = 2
    /\ \E a \in 1..Len(xml.nodes[TopElements[1]].attrs) :
         /\ xml.nodes[TopElements[1]].attrs[a].name = "xsi:type"
         /\ QNameParse(xml.nodes[TopElements[1]].attrs[a].value).name
              = XsiTypeOfCall.qname.name
    /\ \A k \in 1..Len(sval.items) :
         findElement(Schema, 2, sval.items[k].k) # 0 =>
           \E c \in 1..Len(ChildrenOfTop) :
             /\ QNameParse(xml.nodes[ChildrenOfTop[c]].name).name = sval.items[k].k
             /\ xml.nodes[ChildrenOfTop[c]].desc
                  = findElement(Schema, 2, sval.items[k].k)

\* The namespace is known and has no type Other: y is written as r
\* declares it
C22_KnownNamespace ==
  /\ AbsentTypeCall
  /\ XsiTypeOfCall.nsURI = "urn:t"
  /\ xml.err = ""
  /\ \E c \in 1..Len(ChildrenOfTop) :
       xml.nodes[ChildrenOfTop[c]].name = "y" /\ xml.nodes[ChildrenOfTop[c]].desc = 4
  /\ NodeHasAttr(TopElements[1], "xsi:type")

\* The namespace is unknown
C22_UnknownNamespace ==
  /\ AbsentTypeCall
  /\ XsiTypeOfCall.nsURI = "urn:a"
  /\ XsiTypeOfCall.qname.name = "Sub"
  /\ xml.err = ""
  /\ \E c \in 1..Len(ChildrenOfTop) :
       xml.nodes[ChildrenOfTop[c]].name = "x" /\ xml.nodes[ChildrenOfTop[c]].desc = 3

\* A call for the element r with a property map
ObjectCall ==
  /\ Serialized
  /\ rootDesc = 2
  /\ sval.t = "map"
  /\ GetKey(sval.items, valueKey).t = "undef"
  /\ xml.err = ""

\* The names of seq without the repetitions
RECURSIVE Distinct(_)
Distinct(seq) ==
  IF Len(seq) = 0 THEN <<>>
  ELSE LET front == Distinct(SubSeq(seq, 1, Len(seq) - 1))
       IN IF \E i \in 1..Len(front) : front[i] = seq[Len(seq)] THEN front
          ELSE Append(front, seq[Len(seq)])

\* seq with every run of one name made one name
RECURSIVE Collapse(_)
Collapse(seq) ==
  IF Len(seq) < 2 THEN seq
  ELSE LET front == Collapse(SubSeq(seq, 1, Len(seq) - 1))
       IN IF front[Len(front)] = seq[Len(seq)] THEN front
          ELSE Append(front, seq[Len(seq)])

IsIn(seq, e) == \E i \in 1..Len(seq) : seq[i] = e

\* The declared child elements of the descriptor mapObject works with: r,
\* or the type the xsi-type entry names
DeclaredOrder ==
  LET eff == Substituted(2, getXsiType(GetKey(sval.items, attributesKey)))
  IN Distinct([i \in 1..Len(descs[eff].elements) |->
                 descs[descs[eff].elements[i]].name])

\* The order the claim gives the properties of the value
ClaimedOrder ==
  LET keys == SelectSeq(Keys(sval.items), LAMBDA k : k # attributesKey)
  IN SelectSeq(DeclaredOrder, LAMBDA n : IsIn(keys, n))
       \o SelectSeq(keys, LAMBDA k : ~IsIn(DeclaredOrder, k))

\* The local names of the elements below the element r, in document order
ChildNames ==
  LET kids == SelectSeq([i \in 1..Len(xml.nodes) |-> i],
                        LAMBDA i : /\ xml.nodes[i].kind = "element"
                                   /\ xml.nodes[i].parent = TopElements[1])
  IN [i \in 1..Len(kids) |-> QNameParse(xml.nodes[kids[i]].name).name]

\* C16: mapObject serializes the properties of an object in this order:
\* the declared child elements in the order of the descriptor, wherever
\* they are in the object, then the other properties in the order of the
\* object's keys; the attribute map is not serialized as a child; the
\* sorted names are a permutation of the keys.
C16_PropertyOrder ==
  ObjectCall =>
    LET names == sortKeys(Keys(sval.items), DeclaredOrder)
    IN /\ Len(names) = Len(sval.items)
       /\ \A k \in 1..Len(sval.items) : IsIn(names, sval.items[k].k)
       /\ SelectSeq(names, LAMBDA k : k # attributesKey) = ClaimedOrder
       /\ ~IsIn(ChildNames, attributesKey)
       /\ Collapse(ChildNames)
            = SelectSeq([i \in 1..Len(ClaimedOrder) |->
                           QNameParse(ClaimedOrder[i]).name],
                        LAMBDA n : IsIn(ChildNames, n))

\* {u, b, x: [1, 2]}: x twice, then b, then u
C16_UnknownFirst ==
  /\ ObjectCall
  /\ Keys(sval.items) = <<"u", "b", "x">>
  /\ ChildNames = <<"x", "x", "b", "u">>

\* {z, attribute map, u}: z, then u
C16_UnknownInKeyOrder ==
  /\ ObjectCall
  /\ Keys(sval.items) = <<"z", attributesKey, "u">>
  /\ ChildNames = <<"z", "u">>

----------------------------------------------------------------------------
(* Claims about jsonToXml followed by xmlToJson *)

\* Equality of trees: maps are equal when they have the same keys with
\* equal values, in whatever order.
RECURSIVE TreeEq(_, _)
TreeEq(a, b) ==
  CASE a.t = "map" /\ b.t = "map" ->
         /\ {a.items[i].k : i \in 1..Len(a.items)}
              = {b.items[i].k : i \in 1..Len(b.items)}
         /\ Len(a.items) = Len(b.items)
         /\ \A i \in 1..Len(a.items) :
              TreeEq(a.items[i].v, GetKey(b.items, a.items[i].k))
    [] a.t = "arr" /\ b.t = "arr" ->
         /\ Len(a.items) = Len(b.items)
         /\ \A i \in 1..Len(a.items) : TreeEq(a.items[i], b.items[i])
    [] OTHER -> a = b

\* A call on the root type with a value r describes in full, parsed back
RoundTrip ==
  /\ rootDesc = 1
  /\ RValue \in DescribedObjects
  /\ calls >= 1
  /\ pstate \in {"returned", "threw"}

\* C10: for a value the descriptor describes in full, without unknown
\* fields and without dates, parsing the document jsonToXml builds gives
\* back a tree equal to the value: numbers and booleans, repeatable
\* children given as arrays and attribute maps included.
C10_RoundTrip ==
  RoundTrip => pstate = "returned" /\ TreeEq(Resolve(heap, result), sval)

\* The attribute maps of the value hold strings only
NoTypedAttribute ==
  LET attrs == GetKey(RValue.items, attributesKey)
  IN attrs.t = "map" =>
       \A i \in 1..Len(attrs.items) : attrs.items[i].v.t = "str"

\* The round trip of the values whose attributes are strings
C10_RoundTripOfStringAttributes ==
  (RoundTrip /\ NoTypedAttribute) =>
    pstate = "returned" /\ TreeEq(Resolve(heap, result), sval)

\* The number attribute k = 1 comes back as the string "1"
C10_NumberAttributeAsText ==
  /\ RoundTrip
  /\ pstate = "returned"
  /\ GetKey(RValue.items, attributesKey) = Map(<<KV("k", Num(1))>>)
  /\ Resolve(heap, Field(heap, Field(heap, result, "r"), attributesKey))
       = Map(<<KV("k", Str("1"))>>)

----------------------------------------------------------------------------
(* Claims about parseXml *)

PxOver == px.phase \in {"returned", "threw"} /\ px.queue = <<>>

\* C11: a parseXml call given a callback invokes it exactly once, whether
\* the tokenizer ends normally or reports errors, and only after all the
\* token handling of the call is over.
C11_CallbackOnce ==
  px.hasCb =>
    /\ Len(px.called) <= 1
    /\ PxOver => Len(px.called) = 1
    /\ \A i \in 1..Len(px.called) : px.called[i].phase \in {"returned", "threw"}

\* The callback is invoked once for each error reported and once for the
\* end, each time after the call is over.
C11_CallbackPerEvent ==
  (px.hasCb /\ PxOver) =>
    /\ Len(px.called)
         = px.errors + (IF px.phase = "returned" THEN 1 ELSE 0)
    /\ \A i \in 1..Len(px.called) : px.called[i].phase \in {"returned", "threw"}

\* <a> without its close tag: one invocation for the error reported at the
\* end, one for the end.
C11_CalledTwice ==
  /\ px.hasCb
  /\ PxOver
  /\ px.phase = "returned"
  /\ px.errors = 1
  /\ Len(px.called) = 2
  /\ px.called[1].from = "error"
  /\ px.called[2].from = "end"

\* C25: in parseXml, at every token event current is the top entry of
\* the stack and the root is at the bottom of the stack: when each close
\* tag matches the most recent open tag that is not closed, the assertion
\* top === current of the close handler never fails, and the stack is not
\* empty after a close tag.
C25_CurrentIsTop ==
  px.phase # "idle" =>
    /\ Len(px.stack) >= 1
    /\ px.stack[1] = 1
    /\ px.current = px.stack[Len(px.stack)]
    /\ ~(last.op = "pxclose" /\ px.phase = "threw")

\* <a><b k="1">t</b></a>: the close tag of a leaves the root alone
C25_BackAtRoot ==
  /\ last.op = "pxclose"
  /\ last.name = "a"
  /\ px.phase = "writing"
  /\ px.stack = <<1>>
  /\ px.current = 1
  /\ \E n \in 1..Len(px.nodes) : px.nodes[n].name = "b"

\* b is open inside a: three entries, current the last
C25_TwoDeep ==
  /\ last.op = "pxopen"
  /\ Len(px.stack) = 3
  /\ px.current = px.stack[3]
  /\ px.nodes[px.current].name = "b"

====
